---- MODULE Spec2Model ----
(***************************************************************************)
(* Model of the retrieval-augmented generation and action pipeline of the  *)
(* task manager: the conversation store (ConversationService), the         *)
(* orchestrator (RagService.processQuery / processQueryStream), the action *)
(* executor (ActionExecutionService), the indexer (IndexingService) and    *)
(* the vector store client (QdrantService).                                *)
(*                                                                         *)
(* The runtime is a single-threaded event loop: code between two awaits is *)
(* atomic, and every await is a point where another request handler may    *)
(* run.  Actions of the model are therefore the segments of a handler      *)
(* between its awaits.                                                     *)
(***************************************************************************)
EXTENDS Integers, Sequences, FiniteSets, TLC

\* ------------------------------------------------------------------------
\* Bounds of the model (not program constants)
\* ------------------------------------------------------------------------
MaxAppends == 12
MaxFaults == 1
MaxGets == 1
MaxRequests == 2
MaxActions == 1
MaxIds == 2
MaxChunks == 3
MaxBatch == 2
MaxVersion == 2
MaxNow == 3

\* ------------------------------------------------------------------------
\* Program constants
\* ------------------------------------------------------------------------
MAX_MESSAGES == 10
SUMMARIZE_THRESHOLD == 8
messagesToKeep == 3
vectorDimension == 768
ShortcutLimit == 10

\* the clock: a day is TicksPerDay ticks long
TicksPerDay == 2

\* two request handlers that may be in progress at the same time
WorkerSeq == <<1, 2>>
Workers == {WorkerSeq[i] : i \in 1..Len(WorkerSeq)}
SessionSeq == <<"s1">>
Sessions == {SessionSeq[i] : i \in 1..Len(SessionSeq)}
Roles == {"user", "assistant"}
\* array objects that can be alive at once: one per session key, one per call in
\* progress, and the one being allocated
Refs == 1..(Cardinality(Sessions) + Cardinality(Workers) + 1)
NoRef == 0
NoEntry == <<[role |-> "absent", seq |-> 0 - 1]>>

VARIABLES
  conversations,  \* ConversationService.conversations: sessionId -> array reference (NoRef: no key)
  heap,           \* array reference -> contents of that ConversationHistory[] object
  histCache,      \* cache entries "history:<sessionId>": a stored copy of the array, or NoEntry
  wpc,            \* per request handler: position inside addToHistory / getHistory
  wsess,          \* per request handler: sessionId argument of the call in progress
  wref,           \* per request handler: the local `history` array reference of addToHistory
  wgot,           \* per request handler: value the pending cacheManager.get resolved to
  nextSeq,        \* number of turns appended so far, plus one (arrival order of turns)
  faults,         \* cache failures and expiries so far (bounded by MaxFaults)
  gets,           \* getHistory calls so far (bounded by MaxGets)
  calm,           \* so far no call began during another call and no summarisation failed
  serial,         \* so far no call began during another call
  wllm            \* per request handler: how the LLM call of its summarisation ended

convVars ==
  <<conversations, heap, histCache, wpc, wsess, wref, wgot, nextSeq, faults, gets, calm,
    serial, wllm>>

VARIABLES
  db,         \* the relational store: kind -> id -> version of the row (0: no row)
  vstore,     \* the vector collection: a set of points
  respCache,  \* cache entries "query_<hash>": a cached response, or NoResp
  phist,      \* conversation history per sessionId (one request at a time)
  ppc,        \* position of the request being handled inside processQuery
  req,        \* the request being handled
  pending,    \* the answer and sources computed so far for it
  act,        \* what the action executor did for it
  trace,      \* the events of the request being handled, in order
  resp,       \* the response returned to the caller
  prev,       \* the previous request and its response
  failed,     \* the collaborator whose call failed during this request
  nacts       \* requests that took the action route so far (bounded by MaxActions)

procVars == <<db, vstore, respCache, phist, ppc, req, pending, act, trace, resp, prev, failed, nacts>>

VARIABLES
  spc,        \* position of the run inside processQueryStream
  sevents,    \* the events delivered to the subscriber so far, in order
  scomplex,   \* isComplexQuery: the query is longer than 30 characters
  sanswer     \* fullAnswer: the chunks received so far

streamVars == <<spc, sevents, scomplex, sanswer>>

VARIABLES
  embeddingCache,  \* EmbeddingsService.embeddingCache: cache key -> vector (NoVector: no key)
  embedded         \* the last generateEmbedding / generateBatchEmbeddings call and its result

embedVars == <<embeddingCache, embedded>>

VARIABLES
  irows,       \* the rows the indexer reads: kind -> id -> version (0: no row)
  ideadlines,  \* the deadline of each task row
  points,      \* the vector collection the indexer writes
  clock,       \* the current time, in ticks
  ilast        \* the last row or index operation

indexVars == <<irows, ideadlines, points, clock, ilast>>

VARIABLES
  globalDocs,  \* the documents handed to processRetrievedDocs
  retrieved    \* what processRetrievedDocs returned for them

retrVars == <<globalDocs, retrieved>>

VARIABLES
  docLists,    \* the result lists handed to reciprocalRankFusion
  fused        \* what reciprocalRankFusion returned for them

fuseVars == <<docLists, fused>>

VARIABLES
  sinput,      \* the query being searched for and what the LLM made of it
  sfilters,    \* the filters extractFilters returned for it
  ssearch      \* the requests and results of executeHybridSearch

searchVars == <<sinput, sfilters, ssearch>>

VARIABLES
  aclass,      \* the classification and filters of an action request
  aexec        \* what executeAction did with it

actVars == <<aclass, aexec>>

VARIABLES
  rcall        \* the LLM request in progress and its attempts so far

retryVars == <<rcall>>

VARIABLES
  quick        \* the quick-intent checks made so far and the last one

quickVars == <<quick>>

VARIABLES
  rcw           \* the response cache and the committed writes, request by request

writeVars == <<rcw>>

vars == <<convVars, procVars, streamVars, embedVars, indexVars, retrVars, fuseVars,
          searchVars, actVars, retryVars, quickVars, writeVars>>

\* what the actions of one component leave alone
notConv == <<procVars, streamVars, embedVars, indexVars, retrVars, fuseVars, searchVars, actVars, retryVars, quickVars, writeVars>>
notProc == <<convVars, streamVars, embedVars, indexVars, retrVars, fuseVars, searchVars, actVars, retryVars, quickVars, writeVars>>
notStream == <<convVars, procVars, embedVars, indexVars, retrVars, fuseVars, searchVars, actVars, retryVars, quickVars, writeVars>>
notEmbed == <<convVars, procVars, streamVars, indexVars, retrVars, fuseVars, searchVars, actVars, retryVars, quickVars, writeVars>>
notIndex == <<convVars, procVars, streamVars, embedVars, retrVars, fuseVars, searchVars, actVars, retryVars, quickVars, writeVars>>
notRetr == <<convVars, procVars, streamVars, embedVars, indexVars, fuseVars, searchVars, actVars, retryVars, quickVars, writeVars>>
notFuse == <<convVars, procVars, streamVars, embedVars, indexVars, retrVars, searchVars, actVars, retryVars, quickVars, writeVars>>
notSearch == <<convVars, procVars, streamVars, embedVars, indexVars, retrVars, fuseVars, actVars, retryVars, quickVars, writeVars>>
notAct == <<convVars, procVars, streamVars, embedVars, indexVars, retrVars, fuseVars, searchVars, retryVars, quickVars, writeVars>>
notRetry == <<convVars, procVars, streamVars, embedVars, indexVars, retrVars, fuseVars, searchVars, actVars, quickVars, writeVars>>
notQuick == <<convVars, procVars, streamVars, embedVars, indexVars, retrVars, fuseVars, searchVars, actVars, retryVars, writeVars>>
notWrite == <<convVars, procVars, streamVars, embedVars, indexVars, retrVars, fuseVars, searchVars, actVars, retryVars, quickVars>>

\* ------------------------------------------------------------------------
\* Array helpers (JavaScript Array.prototype.slice with negative indices)
\* ------------------------------------------------------------------------
\* history.slice(-n)
SliceLast(h, n) ==
  IF Len(h) <= n THEN h ELSE SubSeq(h, Len(h) - n + 1, Len(h))

\* history.slice(0, -n)
SliceButLast(h, n) ==
  IF Len(h) <= n THEN <<>> ELSE SubSeq(h, 1, Len(h) - n)

SummaryTurn == [role |-> "summary", seq |-> 0]

\* mutant: the safety-net truncation is missing
TruncateHead_Missing(h) == h

\* while (history.length > MAX_MESSAGES) history.shift()
TruncateHead(h) == SliceLast(h, MAX_MESSAGES)

\* the non-summary messages among those to be summarised
SummarizeInput(h) ==
  SelectSeq(SliceButLast(h, messagesToKeep), LAMBDA m : m.role # "summary")

\* summarizeOldMessages reaches its LLM call (neither early return is taken)
WillSummarize(h) ==
  /\ Len(SliceButLast(h, messagesToKeep)) >= 3
  /\ Len(SummarizeInput(h)) > 0

\* mutant: the summary is pushed after the recent messages
ReplaceWithSummary_Last(h) == SliceLast(h, messagesToKeep) \o <<SummaryTurn>>

\* the array after a successful LLM call: summary first, then the recent messages
ReplaceWithSummary(h) == <<SummaryTurn>> \o SliceLast(h, messagesToKeep)

\* mutant: the summary is installed whether the LLM call succeeded or not
AfterSummarize_Always(h, llmOk) == ReplaceWithSummary(h)

\* mutant: the summary of the LLM is never used
AfterSummarize_Fallback(h, llmOk) == TruncateHead(h)

\* the array after the summarizeOldMessages call has settled
AfterSummarize(h, llmOk) ==
  IF llmOk THEN ReplaceWithSummary(h) ELSE TruncateHead(h)

\* a reference no live variable points to (a newly allocated array object)
LiveRefs ==
  {conversations[s] : s \in Sessions} \cup {wref[w] : w \in Workers}

FreshRef == CHOOSE r \in Refs : r \notin LiveRefs

\* Addresses of array objects are immaterial: references are renumbered in the
\* order in which the session map and then the handlers mention them, and the
\* contents of unreachable arrays are dropped (garbage collection).
Mentions(conv, wr) ==
  [i \in 1..Len(SessionSeq) |-> conv[SessionSeq[i]]] \o [i \in 1..Len(WorkerSeq) |-> wr[WorkerSeq[i]]]

FirstMention(m, r) == CHOOSE i \in 1..Len(m) : m[i] = r /\ \A j \in 1..(i - 1) : m[j] # r

Rank(m, r) ==
  IF r = NoRef THEN NoRef
  ELSE Cardinality({m[j] : j \in 1..FirstMention(m, r)} \ {NoRef})

Install(conv, wr, hp) ==
  LET m == Mentions(conv, wr)
      live == {m[i] : i \in 1..Len(m)} \ {NoRef}
  IN
  /\ conversations' = [s \in Sessions |-> Rank(m, conv[s])]
  /\ wref' = [w \in Workers |-> Rank(m, wr[w])]
  /\ heap' = [k \in Refs |->
                IF \E r \in live : Rank(m, r) = k
                THEN hp[CHOOSE r \in live : Rank(m, r) = k]
                ELSE <<>>]

\* cacheManager.set("history:<id>", history, ttl) inside try/catch: the write
\* stores a copy of the array, or fails and is only logged
CacheSet(hc, s, h, ok) == IF ok THEN [hc EXCEPT ![s] = h] ELSE hc

\* a collaborator call fails only while the fault budget lasts
Fault(ok) ==
  /\ ~ok => faults < MaxFaults
  /\ faults' = IF ok THEN faults ELSE faults + 1

ConvInit ==
  /\ conversations = [s \in Sessions |-> NoRef]
  /\ heap = [r \in Refs |-> <<>>]
  /\ histCache = [s \in Sessions |-> NoEntry]
  /\ wpc = [w \in Workers |-> "idle"]
  /\ wsess = [w \in Workers |-> "s1"]
  /\ wref = [w \in Workers |-> NoRef]
  /\ wgot = [w \in Workers |-> NoEntry]
  /\ nextSeq = 1
  /\ faults = 0
  /\ gets = 0
  /\ calm = TRUE
  /\ serial = TRUE
  /\ wllm = [w \in Workers |-> "none"]

\* ------------------------------------------------------------------------
\* ConversationService.addToHistory, split at its awaits
\* ------------------------------------------------------------------------
\* the synchronous tail of addToHistory: truncate, then write the cache mirror
TruncateAndMirror(w, s, conv, wr, r, h, cacheOk) ==
  LET h2 == TruncateHead(h) IN
  /\ Fault(cacheOk)
  /\ Install(conv, wr, [heap EXCEPT ![r] = h2])
  /\ histCache' = CacheSet(histCache, s, h2, cacheOk)
  /\ wpc' = [wpc EXCEPT ![w] = "caching"]

\* callers append a user turn and an assistant turn alternately; the role has
\* no influence on what addToHistory does
NextRole == IF nextSeq % 2 = 1 THEN "user" ELSE "assistant"

\* addToHistory up to its first await: create the session array if missing,
\* push the turn, then either enter summarizeOldMessages (await of the LLM
\* call) or go on to truncate and mirror (await of the cache write)
AppendPush(w, s, role) ==
  /\ UNCHANGED notConv
  /\ wpc[w] = "idle"
  /\ nextSeq <= MaxAppends
  /\ LET r == IF conversations[s] = NoRef THEN FreshRef ELSE conversations[s]
         h1 == Append(heap[r], [role |-> role, seq |-> nextSeq])
         conv == [conversations EXCEPT ![s] = r]
         wr == [wref EXCEPT ![w] = r]
     IN
     /\ wsess' = [wsess EXCEPT ![w] = s]
     /\ nextSeq' = nextSeq + 1
     /\ calm' = (calm /\ \A w2 \in Workers : wpc[w2] = "idle")
     /\ serial' = (serial /\ \A w2 \in Workers : wpc[w2] = "idle")
     /\ UNCHANGED <<wgot, gets, wllm>>
     /\ IF Len(h1) >= SUMMARIZE_THRESHOLD /\ WillSummarize(h1)
        THEN /\ Install(conv, wr, [heap EXCEPT ![r] = h1])
             /\ wpc' = [wpc EXCEPT ![w] = "summarizing"]
             /\ UNCHANGED <<histCache, faults>>
        ELSE \E cacheOk \in BOOLEAN :
               TruncateAndMirror(w, s, conv, wr, r, h1, cacheOk)

\* the LLM call of summarizeOldMessages settles (resolved or rejected); the
\* array is rebuilt from its contents at that moment, and addToHistory goes on
\* to truncate and mirror
AppendSummarized(w) ==
  /\ UNCHANGED notConv
  /\ wpc[w] = "summarizing"
  /\ UNCHANGED <<wsess, wgot, nextSeq, gets, serial>>
  /\ \E llmOk \in BOOLEAN, cacheOk \in BOOLEAN :
       /\ calm' = (calm /\ llmOk)
       /\ wllm' = [wllm EXCEPT ![w] = IF llmOk THEN "ok" ELSE "failed"]
       /\ TruncateAndMirror(w, wsess[w], conversations, wref, wref[w],
                            AfterSummarize(heap[wref[w]], llmOk), cacheOk)

\* the cache write settles and addToHistory returns
AppendReturn(w) ==
  /\ UNCHANGED notConv
  /\ wpc[w] = "caching"
  /\ wpc' = [wpc EXCEPT ![w] = "idle"]
  /\ Install(conversations, [wref EXCEPT ![w] = NoRef], heap)
  /\ wllm' = [wllm EXCEPT ![w] = "none"]
  /\ UNCHANGED <<histCache, wsess, wgot, nextSeq, faults, gets, calm, serial>>

\* ------------------------------------------------------------------------
\* ConversationService.getHistory, split at its awaits
\* ------------------------------------------------------------------------
\* getHistory issues cacheManager.get: the read resolves to the stored copy, or
\* finds no entry, or throws (caught: treated as no entry)
GetRead(w, s) ==
  /\ UNCHANGED notConv
  /\ wpc[w] = "idle"
  /\ gets < MaxGets
  /\ gets' = gets + 1
  /\ calm' = (calm /\ \A w2 \in Workers : wpc[w2] = "idle")
  /\ serial' = (serial /\ \A w2 \in Workers : wpc[w2] = "idle")
  /\ wpc' = [wpc EXCEPT ![w] = "getting"]
  /\ wsess' = [wsess EXCEPT ![w] = s]
  /\ \E readOk \in BOOLEAN :
       /\ Fault(readOk)
       /\ wgot' = [wgot EXCEPT ![w] = IF readOk THEN histCache[s] ELSE NoEntry]
  /\ UNCHANGED <<conversations, heap, histCache, wref, nextSeq, wllm>>

\* getHistory after the read: on a hit the map is pointed at the array that
\* came out of the cache; on a miss the in-memory array is returned and, when
\* not empty, written to the cache
GetApply(w) ==
  /\ UNCHANGED notConv
  /\ wpc[w] = "getting"
  /\ wpc' = [wpc EXCEPT ![w] = "idle"]
  /\ wgot' = [wgot EXCEPT ![w] = NoEntry]
  /\ UNCHANGED <<wsess, nextSeq, gets, calm, serial, wllm>>
  /\ IF wgot[w] # NoEntry
     THEN /\ Install([conversations EXCEPT ![wsess[w]] = FreshRef], wref,
                     [heap EXCEPT ![FreshRef] = wgot[w]])
          /\ UNCHANGED <<histCache, faults>>
     ELSE LET r == conversations[wsess[w]]
              h == IF r = NoRef THEN <<>> ELSE heap[r]
          IN /\ UNCHANGED <<conversations, heap, wref>>
             /\ IF Len(h) > 0
                THEN \E cacheOk \in BOOLEAN :
                       /\ Fault(cacheOk)
                       /\ histCache' = CacheSet(histCache, wsess[w], h, cacheOk)
                ELSE UNCHANGED <<histCache, faults>>

\* a cache entry expires (TTL 30 min) or is evicted (max 100 items)
HistCacheExpire(s) ==
  /\ UNCHANGED notConv
  /\ histCache[s] # NoEntry
  /\ Fault(FALSE)
  /\ histCache' = [histCache EXCEPT ![s] = NoEntry]
  /\ UNCHANGED <<conversations, heap, wpc, wsess, wref, wgot, nextSeq, gets, calm, serial,
                 wllm>>

ConvNext ==
  \/ \E w \in Workers, s \in Sessions : AppendPush(w, s, NextRole)
  \/ \E w \in Workers : AppendSummarized(w)
  \/ \E w \in Workers : AppendReturn(w)
  \/ \E w \in Workers, s \in Sessions : GetRead(w, s)
  \/ \E w \in Workers : GetApply(w)
  \/ \E s \in Sessions : HistCacheExpire(s)


\* ========================================================================
\* Orchestrator (RagService.processQuery), action executor, indexer and
\* vector store client; one request is handled at a time
\* ========================================================================
Kinds == {"task", "user", "team", "project"}
Ids == 1..MaxIds
\* a name or UUID given as an argument that matches no entity
Unknown == MaxIds + 1


\* ------------------------------------------------------------------------
\* The 32-bit string hash of stringToNumericId and generateCacheKey, on two
\* 16-bit limbs: hash = ((hash << 5) - hash + char) | 0, then Math.abs
\* ------------------------------------------------------------------------
Limb == 65536
Zero32 == [hi |-> 0, lo |-> 0]

HashStep(h, c) ==
  LET lo == 31 * h.lo + c
      hi == 31 * h.hi + (lo \div Limb)
  IN [hi |-> hi % Limb, lo |-> lo % Limb]

RECURSIVE HashFrom(_, _)
HashFrom(h, str) ==
  IF str = <<>> THEN h ELSE HashFrom(HashStep(h, Head(str)), Tail(str))

\* Math.abs of the signed 32-bit value
Abs32(h) ==
  IF h.hi < Limb \div 2 THEN h
  ELSE IF h.lo = 0 THEN [hi |-> Limb - h.hi, lo |-> 0]
       ELSE [hi |-> Limb - h.hi - 1, lo |-> Limb - h.lo]

stringToNumericId(str) == Abs32(HashFrom(Zero32, str))

\* strings are sequences of UTF-16 code units
KindCodes(k) ==
  CASE k = "task" -> <<116, 97, 115, 107>>
    [] k = "user" -> <<117, 115, 101, 114>>
    [] k = "team" -> <<116, 101, 97, 109>>
    [] k = "project" -> <<112, 114, 111, 106, 101, 99, 116>>

\* the id of entity i as a string
IdCodes(i) == <<48 + i>>

\* `${entityType}-${entityId}`
generatePointId(k, i) == KindCodes(k) \o <<45>> \o IdCodes(i)

\* ------------------------------------------------------------------------
\* QdrantService and the Qdrant client
\* ------------------------------------------------------------------------
\* a point id as the client receives it: a number or a string
NumberId(n) == [tag |-> "number", num |-> n, str |-> <<>>]
StringId(s) == [tag |-> "string", num |-> Zero32, str |-> s]

\* a stored point: its id and its payload
Point(pid, payload) ==
  [pid |-> pid, entity_type |-> payload.entity_type,
   entity_id |-> payload.entity_id, ver |-> payload.ver,
   metadata |-> payload.metadata, indexed_at |-> payload.indexed_at]

\* mutant: the upsert adds a point and leaves the one with the same id
ClientUpsert_Adds(store, pid, payload) == store \cup {Point(pid, payload)}

\* client.upsert of one point: replaces the point with the same id
ClientUpsert(store, pid, payload) ==
  {p \in store : p.pid # pid} \cup {Point(pid, payload)}

\* client.delete of one point id, when the server accepts the request: removes
\* the point stored under exactly that id
ClientDelete(store, pid) == {p \in store : p.pid # pid}

\* mutant: the upsert is lost
insertVector_Lost(store, id, payload, now) == store

\* insertVector: the point is stored under the numeric hash of the string id,
\* its payload extended by indexed_at
insertVector(store, id, payload, now) ==
  ClientUpsert(store, NumberId(stringToNumericId(id)),
               [entity_type |-> payload.entity_type, entity_id |-> payload.entity_id,
                ver |-> payload.ver, metadata |-> payload.metadata,
                indexed_at |-> now])

\* deleteVector: the string id itself is handed to client.delete
deleteVector(store, id) == ClientDelete(store, StringId(id))

\* ------------------------------------------------------------------------
\* IndexingService
\* ------------------------------------------------------------------------
\* task deadlines, in clock ticks; NoDeadline: the task has none
NoDeadline == 0 - 1
NoDeadlines == [i \in Ids |-> NoDeadline]

\* Math.ceil(a / b) for b > 0
CeilDiv(a, b) == 0 - ((0 - a) \div b)

\* getDaysUntilDeadline: whole days from now to the deadline, rounded up;
\* null without a deadline
Days(n) == [null |-> FALSE, days |-> n]
NullDays == [null |-> TRUE, days |-> 0]
getDaysUntilDeadline(deadline, now) ==
  IF deadline = NoDeadline THEN NullDays ELSE Days(CeilDiv(deadline - now, TicksPerDay))

\* the metadata of a document that the search filters look at
Metadata(status, daysUntilDeadline) ==
  [task_status |-> status,
   is_overdue |-> ~daysUntilDeadline.null /\ daysUntilDeadline.days < 0,
   is_urgent |-> /\ ~daysUntilDeadline.null
                 /\ daysUntilDeadline.days >= 0
                 /\ daysUntilDeadline.days <= 3,
   days_until_deadline |-> daysUntilDeadline]

\* transformTask / transformUser / ...: tasks carry a status and the fields
\* derived from the deadline and the current time
transform(k, deadline, now) ==
  IF k = "task" THEN Metadata("todo", getDaysUntilDeadline(deadline, now))
  ELSE Metadata("none", NullDays)

\* indexUser / indexTeam / indexProject / indexTask without a failure: the row
\* is read, and, when found, its document is upserted
IndexEntityAt(store, d, deadlines, k, i, now) ==
  IF i \notin Ids \/ d[k][i] = 0 THEN store
  ELSE insertVector(store, generatePointId(k, i),
                    [entity_type |-> k, entity_id |-> i, ver |-> d[k][i],
                     metadata |-> transform(k, deadlines[i], now)],
                    now)

\* the same for rows without deadlines, the clock standing at 0
IndexEntity(store, d, k, i) == IndexEntityAt(store, d, NoDeadlines, k, i, 0)

\* deleteFromIndex, when deleteVector does not throw
deleteFromIndex(store, k, i) == deleteVector(store, generatePointId(k, i))

\* mutant: a reindex that removes the document it finds and indexes only when
\* it finds none
reindexEntityAt_Toggle(store, d, deadlines, k, i, delOk, now) ==
  IF \E p \in store : p.entity_type = k /\ p.entity_id = i
  THEN {p \in store : ~(p.entity_type = k /\ p.entity_id = i)}
  ELSE IndexEntityAt(store, d, deadlines, k, i, now)

\* reindexEntity without a failure of the index step: a delete whose failure is
\* tolerated, then the index method of the kind
reindexEntityAt(store, d, deadlines, k, i, delOk, now) ==
  IndexEntityAt(IF delOk THEN deleteFromIndex(store, k, i) ELSE store,
                d, deadlines, k, i, now)

reindexEntity(store, d, k, i, delOk) ==
  reindexEntityAt(store, d, NoDeadlines, k, i, delOk, 0)

\* the documents of the entity (k, i) in the collection
DocsOf(store, k, i) == {p \in store : p.entity_type = k /\ p.entity_id = i}

\* ------------------------------------------------------------------------
\* ActionExecutionService: the functions and their arguments
\* ------------------------------------------------------------------------
Ops == {"create", "update", "delete"}

\* function names are `${action}_${entityType}`
FunctionName(op, k) == [op |-> op, kind |-> k]
FunctionNames == {FunctionName(op, k) : op \in Ops, k \in Kinds}

IdArgNames == {"taskId", "userId", "assignedTo", "teamId", "ownerId", "projectId"}

\* the kind of entity an ID-bearing argument names (resolveTaskId,
\* resolveUserId, resolveTeamId, resolveProjectId)
TargetKind(a) ==
  CASE a = "taskId" -> "task"
    [] a \in {"userId", "assignedTo", "ownerId"} -> "user"
    [] a = "teamId" -> "team"
    [] a = "projectId" -> "project"

\* the argument that names the entity an update or a delete acts on
SubjectArg(k) ==
  CASE k = "task" -> "taskId"
    [] k = "user" -> "userId"
    [] k = "team" -> "teamId"
    [] k = "project" -> "projectId"

\* the arguments whose presence the execute* method of the function checks
Validated(fn) ==
  IF fn.op # "create" THEN {SubjectArg(fn.kind)}
  ELSE CASE fn.kind = "task" -> {"title"}
         [] fn.kind = "user" -> {"name", "email", "password"}
         [] fn.kind = "team" -> {"name", "projectId", "ownerId"}
         [] fn.kind = "project" -> {"name"}

\* the ID-bearing arguments the execute* method resolves when they are supplied
Resolved(fn) ==
  CASE fn.op = "delete" -> {SubjectArg(fn.kind)}
    [] fn.op = "update" ->
         {SubjectArg(fn.kind)} \cup
         (CASE fn.kind = "task" -> {"assignedTo"}
            [] fn.kind = "user" -> {"teamId"}
            [] fn.kind = "team" -> {"projectId", "ownerId"}
            [] fn.kind = "project" -> {})
    [] fn.op = "create" ->
         (CASE fn.kind = "task" -> {"assignedTo"}
            [] fn.kind = "user" -> {"teamId"}
            [] fn.kind = "team" -> {"projectId", "ownerId"}
            [] fn.kind = "project" -> {})

\* the declared parameters of the function that the executor validates or
\* resolves (the other declared parameters are copied into the row unchecked)
Params(fn) == Validated(fn) \cup Resolved(fn)

\* argument values: 0 is an absent argument; an ID-bearing argument is the
\* name or UUID of entity i, or Unknown; any other argument is present (1)
ArgValues(a) == IF a \in IdArgNames THEN 0..Unknown ELSE {0, 1}

ArgSets(fn) ==
  {args \in [Params(fn) -> 0..Unknown] : \A a \in Params(fn) : args[a] \in ArgValues(a)}

FunctionCalls ==
  UNION {{[name |-> fn, arguments |-> args] : args \in ArgSets(fn)} : fn \in FunctionNames}

Supplied(args, a) == a \in DOMAIN args /\ args[a] # 0

\* EntityResolutionService.resolveEntity: the id of the entity the value
\* names, or 0 (null) when the value is empty or names no existing entity
resolveEntity(d, k, v) == IF v \in Ids /\ d[k][v] > 0 THEN v ELSE 0

\* mutant: ID-bearing arguments are not resolved before the CRUD call
ArgsAccepted_Unresolved(fn, args, d) ==
  \A a \in Validated(fn) : Supplied(args, a)

\* the checks of the execute* method pass: every validated argument is
\* present and every supplied ID-bearing argument resolves
ArgsAccepted(fn, args, d) ==
  /\ \A a \in Validated(fn) : Supplied(args, a)
  /\ \A a \in Resolved(fn) :
       Supplied(args, a) => resolveEntity(d, TargetKind(a), args[a]) # 0

\* the id the database gives a new row
NewId(d, k) == CHOOSE i \in Ids : d[k][i] = 0 /\ \A j \in Ids : d[k][j] = 0 => i <= j

\* the entity the function acts on
SubjectId(fn, args, d) ==
  IF fn.op = "create" THEN NewId(d, fn.kind)
  ELSE resolveEntity(d, fn.kind, args[SubjectArg(fn.kind)])

\* the CRUD service commits: create inserts version 1, update writes the next
\* version, remove deletes the row
Commit(d, op, k, i) ==
  [d EXCEPT ![k][i] = CASE op = "create" -> 1
                        [] op = "update" -> @ + 1
                        [] op = "delete" -> 0]

\* the CRUD services index on their own after a commit: every create, and the
\* updates of tasks, teams and projects (failures are caught and logged)
ServiceIndexes(op, k) == op = "create" \/ (op = "update" /\ k # "user")

ServiceIndex(store, d, op, k, i, ok, delOk) ==
  IF ~ok \/ ~ServiceIndexes(op, k) THEN store
  ELSE IF op = "create" THEN IndexEntity(store, d, k, i)
  ELSE reindexEntity(store, d, k, i, delOk)

\* the index step of the execute* method, when it reports no failure:
\* index* after a create, reindexEntity after an update, deleteFromIndex
\* after a delete
ExecutorIndex(store, d, op, k, i, delOk) ==
  CASE op = "create" -> IndexEntity(store, d, k, i)
    [] op = "update" -> reindexEntity(store, d, k, i, delOk)
    [] op = "delete" -> deleteFromIndex(store, k, i)

\* ------------------------------------------------------------------------
\* RagService: requests, sessions and the response cache
\* ------------------------------------------------------------------------
\* request.query values: "hi", "List  overdue tasks " and "do"
Greeting == <<104, 105>>
ListTasks ==
  <<76, 105, 115, 116, 32, 32, 111, 118, 101, 114, 100, 117, 101, 32,
    116, 97, 115, 107, 115, 32>>
DoIt == <<100, 111>>
Queries == {Greeting, ListTasks, DoIt}

\* where detectQuickIntent and classifyQuery send the query: a greeting is a
\* quick intent, "do" is classified create, update or delete, the others are
\* retrieval queries
QueryRoute(q) ==
  CASE q = Greeting -> "quick_intent"
    [] q = DoIt -> "action"
    [] OTHER -> "retrieval"

IsSpace(c) == c \in {9, 10, 13, 32}

\* query.toLowerCase()
ToLowerCase(str) ==
  [i \in 1..Len(str) |-> IF str[i] \in 65..90 THEN str[i] + 32 ELSE str[i]]

\* .trim()
RECURSIVE TrimStart(_)
TrimStart(str) ==
  IF str # <<>> /\ IsSpace(Head(str)) THEN TrimStart(Tail(str)) ELSE str

RECURSIVE TrimEnd(_)
TrimEnd(str) ==
  IF str # <<>> /\ IsSpace(str[Len(str)])
  THEN TrimEnd(SubSeq(str, 1, Len(str) - 1)) ELSE str

Trim(str) == TrimEnd(TrimStart(str))

\* .replace(/\s+/g, ' ')
RECURSIVE CollapseSpaces(_)
CollapseSpaces(str) ==
  IF str = <<>> THEN <<>>
  ELSE IF IsSpace(Head(str))
       THEN <<32>> \o CollapseSpaces(TrimStart(str))
       ELSE <<Head(str)>> \o CollapseSpaces(Tail(str))

\* str.startsWith(pre), and the rest of str after pre
StartsWith(str, pre) == Len(str) >= Len(pre) /\ SubSeq(str, 1, Len(pre)) = pre
DropPrefix(str, pre) == SubSeq(str, Len(pre) + 1, Len(str))

\* the words of the two simple patterns: get show find list / all / overdue
\* urgent done "to do" "in progress" / task project team user, with or
\* without a final s
PatternVerbs ==
  {<<103, 101, 116>>, <<115, 104, 111, 119>>, <<102, 105, 110, 100>>,
   <<108, 105, 115, 116>>}
PatternAll == <<97, 108, 108>>
PatternStates ==
  {<<111, 118, 101, 114, 100, 117, 101>>, <<117, 114, 103, 101, 110, 116>>,
   <<100, 111, 110, 101>>, <<116, 111, 32, 100, 111>>,
   <<105, 110, 32, 112, 114, 111, 103, 114, 101, 115, 115>>}
PatternNouns ==
  LET singular == {<<116, 97, 115, 107>>, <<112, 114, 111, 106, 101, 99, 116>>,
                   <<116, 101, 97, 109>>, <<117, 115, 101, 114>>}
  IN singular \cup {n \o <<115>> : n \in singular}

\* str matches \s+ followed by something: what follows the whitespace
SpacesThen(str, P(_)) == str # <<>> /\ IsSpace(Head(str)) /\ P(TrimStart(str))

\* isSimpleExactMatch: the lower-cased query (not trimmed) matches
\* /^(get|show|find|list)\s+(all\s+)?(overdue|urgent|done|to do|in progress)/
\* or /^(get|show|find|list)\s+(task|tasks|...|users)$/
isSimpleExactMatch(query) ==
  LET lowerQuery == ToLowerCase(query)
      State(str) == \E w \in PatternStates : StartsWith(str, w)
      AllState(str) ==
        StartsWith(str, PatternAll) /\ SpacesThen(DropPrefix(str, PatternAll), State)
      First(str) == State(str) \/ AllState(str)
      Second(str) == str \in PatternNouns
  IN \E v \in PatternVerbs :
       /\ StartsWith(lowerQuery, v)
       /\ \/ SpacesThen(DropPrefix(lowerQuery, v), First)
          \/ SpacesThen(DropPrefix(lowerQuery, v), Second)

\* the number in `query_${Math.abs(hash)}`
generateCacheKey(query) ==
  Abs32(HashFrom(Zero32, CollapseSpaces(Trim(ToLowerCase(query)))))

CacheKeys == {generateCacheKey(q) : q \in Queries}

\* session ids: supplied by the caller, or made by generateSessionId (unique
\* per call); NoSession is a request without sessionId
SessionId(by, n) == [by |-> by, n |-> n]
CallerSessions == {SessionId("caller", 1)}
NoSession == SessionId("nobody", 0)
generateSessionId(n) == SessionId("generated", n)
ProcSessions == CallerSessions \cup {generateSessionId(n) : n \in 1..MaxRequests}

\* what the language model and the templates can answer
Answers == {"a1", "a2"}
Templates == {"t1", "t2"}

NoResp ==
  [answer |-> "none", sources |-> {}, sessionId |-> NoSession, fromCache |-> FALSE,
   writer |-> 0, stepsExecuted |-> <<>>, retrievedDocuments |-> 0,
   functionCalls |-> <<>>]
NoFunction == [op |-> "none", kind |-> "none"]
NoAct ==
  [name |-> NoFunction, arguments |-> [a \in {} |-> 0],
   before |-> [k \in Kinds |-> [i \in Ids |-> 0]], called |-> FALSE,
   committed |-> FALSE, index |-> "none", id |-> 0]
NoReq == [no |-> 0, query |-> <<>>, sessionId |-> NoSession, path |-> "none", hit |-> 0]
NoPrev ==
  [no |-> 0, query |-> <<>>, sessionId |-> NoSession, outcome |-> "none",
   answer |-> "none", sources |-> {}, path |-> "none"]

\* mutant: a cache hit answers with the cached response as stored, sessionId
\* of the first caller included
CacheHitResponse_Stored(entry, sessionId) ==
  [entry EXCEPT !.fromCache = TRUE, !.writer = 0]

\* { ...cachedResult, sessionId, metadata: { ..., fromCache: true } }
CacheHitResponse(entry, sessionId) ==
  [entry EXCEPT !.sessionId = sessionId, !.fromCache = TRUE, !.writer = 0]

\* the documents a search for tasks can cite: at most one of the stored task
\* documents
SourceChoices ==
  {{}} \cup {{[entityType |-> p.entity_type, entityId |-> p.entity_id]} :
               p \in {x \in vstore : x.entity_type = "task"}}

\* one addToHistory call run to its end, nothing else running in between
AddToHistory(h, turn, llmOk) ==
  LET h1 == Append(h, turn) IN
  TruncateHead(IF Len(h1) >= SUMMARIZE_THRESHOLD /\ WillSummarize(h1)
               THEN AfterSummarize(h1, llmOk) ELSE h1)

ProcInit ==
  /\ db = [k \in Kinds |-> [i \in Ids |-> IF i = 1 THEN 1 ELSE 0]]
  /\ vstore = UNION {IndexEntity({}, [j \in Kinds |-> [i \in Ids |-> IF i = 1 THEN 1 ELSE 0]],
                                  k, 1) : k \in Kinds}
  /\ respCache = [key \in CacheKeys |-> NoResp]
  /\ phist = [s \in ProcSessions |-> <<>>]
  /\ ppc = "idle"
  /\ req = NoReq
  /\ pending = NoResp
  /\ act = NoAct
  /\ trace = <<>>
  /\ resp = NoResp
  /\ prev = NoPrev
  /\ failed = "none"
  /\ nacts = 0

\* ------------------------------------------------------------------------
\* RagService.processQuery, split at its awaits
\* ------------------------------------------------------------------------
Response(answer, sources, sessionId) ==
  [answer |-> answer, sources |-> sources, sessionId |-> sessionId,
   fromCache |-> FALSE, writer |-> 0, stepsExecuted |-> <<>>,
   retrievedDocuments |-> 0, functionCalls |-> <<>>]

\* metadata.stepsExecuted, metadata.retrievedDocuments and
\* metadata.functionCalls of a response
WithMetadata(r, steps, docs, calls) ==
  [r EXCEPT !.stepsExecuted = steps, !.retrievedDocuments = docs,
            !.functionCalls = calls]

\* the steps the full pipeline pushes when it runs to its end
PipelineSteps(reformulated) ==
  <<"history_management", "query_classification", "metadata_extraction">>
  \o (IF reformulated THEN <<"query_reformulation">> ELSE <<>>) \o
  <<"hybrid_search", "reranking", "mmr_diversity", "context_compression",
    "citation_preparation", "answer_generation", "grounding_check",
    "confidence_scoring", "source_attribution", "update_history">>

\* the catch block of processQuery: formatErrorMessage never throws, and the
\* error response is returned
ErrorResponse(sessionId) ==
  WithMetadata(Response("friendly_error", {}, sessionId), <<"error_handling">>, 0, <<>>)

\* a request arrives once the previous one has been answered; the sessionId
\* is the caller's, or a generated one
Receive(q, s) ==
  /\ UNCHANGED notProc
  /\ ppc \in {"idle", "returned", "raised"}
  /\ req.no < MaxRequests
  /\ req' = [no |-> req.no + 1, query |-> q,
             sessionId |-> IF s = NoSession THEN generateSessionId(req.no + 1) ELSE s,
             path |-> "none", hit |-> 0]
  /\ prev' = IF ppc = "idle" THEN prev
             ELSE [no |-> req.no, query |-> req.query, sessionId |-> req.sessionId,
                   outcome |-> ppc, answer |-> resp.answer, sources |-> resp.sources,
                   path |-> IF failed = "none" THEN req.path ELSE "failed"]
  /\ ppc' = "lookup"
  /\ pending' = NoResp
  /\ act' = NoAct
  /\ trace' = <<>>
  /\ resp' = NoResp
  /\ failed' = "none"
  /\ UNCHANGED <<db, vstore, respCache, phist, nacts>>

\* cacheManager.get(cacheKey), before the try block: a rejection reaches the
\* caller; a hit is answered from the cache; a miss enters the pipeline
CacheLookup ==
  /\ UNCHANGED notProc
  /\ ppc = "lookup"
  /\ UNCHANGED <<db, vstore, respCache, phist, pending, act, prev, nacts>>
  /\ \E readOk \in BOOLEAN :
       LET entry == respCache[generateCacheKey(req.query)] IN
       IF ~readOk
       THEN /\ ppc' = "raised"
            /\ failed' = "response cache"
            /\ UNCHANGED <<req, resp, trace>>
       ELSE IF entry # NoResp
       THEN /\ ppc' = "returned"
            /\ req' = [req EXCEPT !.path = "cache_hit", !.hit = entry.writer]
            /\ resp' = CacheHitResponse(entry, req.sessionId)
            /\ trace' = Append(trace, "returned")
            /\ UNCHANGED failed
       ELSE /\ ppc' = "pipeline"
            /\ UNCHANGED <<req, resp, trace, failed>>

\* a call awaited inside the try block fails before any turn is appended
\* (detectQuickIntent, classifyQuery, extractFilters, reformulateQuery,
\* executeHybridSearch, generateAnswer): the catch block answers
PipelineFails(who) ==
  /\ UNCHANGED notProc
  /\ ppc = "pipeline"
  /\ ppc' = "returned"
  /\ failed' = who
  /\ req' = [req EXCEPT !.path = "error"]
  /\ resp' = ErrorResponse(req.sessionId)
  /\ trace' = Append(trace, "returned")
  /\ UNCHANGED <<db, vstore, respCache, phist, pending, act, prev, nacts>>

\* detectQuickIntent finds a greeting, goodbye or thanks: a random template is
\* the answer
QuickIntentPath(answer) ==
  /\ UNCHANGED notProc
  /\ ppc = "pipeline"
  /\ QueryRoute(req.query) = "quick_intent"
  /\ ppc' = "appendUser"
  /\ req' = [req EXCEPT !.path = "quick_intent"]
  /\ pending' = WithMetadata(Response(answer, {}, req.sessionId),
                              <<"quick_intent">>, 0, <<>>)
  /\ UNCHANGED <<db, vstore, respCache, phist, act, trace, resp, prev, failed, nacts>>

\* the full pipeline: retrieval, post-retrieval and generation.  The query is
\* reformulated when the session has history, and otherwise when the
\* classifier calls it a question or a search.
FullPath(answer, sources) ==
  /\ UNCHANGED notProc
  /\ ppc = "pipeline"
  /\ QueryRoute(req.query) = "retrieval"
  /\ ppc' = "appendUser"
  /\ req' = [req EXCEPT !.path = "full"]
  /\ \E needsReformulation \in BOOLEAN :
       /\ Len(phist[req.sessionId]) > 0 => needsReformulation
       /\ pending' = WithMetadata(Response(answer, sources, req.sessionId),
                                   PipelineSteps(needsReformulation),
                                   Cardinality(sources), <<>>)
  /\ UNCHANGED <<db, vstore, respCache, phist, act, trace, resp, prev, failed, nacts>>

\* mutant: the search returns every point that matches
Limited_Not(n, limit) == n

\* the number of points client.search returns when n points match
Limited(n, limit) == IF n > limit THEN limit ELSE n

\* how many points of the collection match the filter of the shortcut search
MatchCounts == {1, ShortcutLimit, ShortcutLimit + 1}

\* the smart shortcut, taken when the query matches a simple pattern,
\* filters.entity_type is set, the search has a first hit scoring above 0.8
\* and the fast LLM answers; the result is cached and returned without
\* touching the history.  A rejected cacheManager.set is caught by the catch
\* block of processQuery.
ShortcutPath(answer, sources, matches) ==
  /\ UNCHANGED notProc
  /\ ppc = "pipeline"
  /\ QueryRoute(req.query) = "retrieval"
  /\ isSimpleExactMatch(req.query)
  /\ sources # {}
  /\ ppc' = "returned"
  /\ req' = [req EXCEPT !.path = "shortcut"]
  /\ trace' = Append(trace, "returned")
  /\ UNCHANGED <<db, vstore, phist, pending, act, prev, nacts>>
  /\ \E cacheOk \in BOOLEAN :
       LET result == WithMetadata(Response(answer, sources, req.sessionId),
                                  <<"shortcut_exact_match">>,
                                  Limited(matches, ShortcutLimit), <<>>) IN
       IF cacheOk
       THEN /\ respCache' = [respCache EXCEPT ![generateCacheKey(req.query)] =
                               [result EXCEPT !.writer = req.no]]
            /\ resp' = result
            /\ UNCHANGED failed
       ELSE /\ resp' = ErrorResponse(req.sessionId)
            /\ failed' = "response cache"
            /\ UNCHANGED respCache

\* mutant: a failure of the index step escapes the execute* method
ExecuteOutcome_Propagates(crudOk, idxOk) ==
  IF crudOk /\ idxOk THEN "returned" ELSE "threw"

\* how an execute* method whose arguments were accepted ends: a failure of
\* the CRUD service is rethrown, a failure of the index step is caught and
\* logged
ExecuteOutcome(crudOk, idxOk) ==
  IF crudOk THEN "returned" ELSE "threw"

\* what executeAction returns for a determined function call: the formatted
\* success message, or the friendly error with the extracted parameters;
\* the function call is part of both
ActionResult(fc, outcome, sessionId) ==
  WithMetadata(Response(IF outcome = "returned" THEN "action_ok" ELSE "action_error",
                        {}, sessionId),
               <<"action_execution">>, 0, <<fc>>)

\* the action route: executeHybridSearch, then executeAction, which never
\* throws.  determineFunctionCall yields a function call or nothing; the
\* execute* method validates and resolves the arguments, calls the CRUD
\* service and then the indexer, whose failure is only logged.
ActionPath(fc) ==
  /\ UNCHANGED notProc
  /\ ppc = "pipeline"
  /\ QueryRoute(req.query) = "action"
  /\ nacts < MaxActions
  /\ nacts' = nacts + 1
  /\ fc.name.op = "create" => \E i \in Ids : db[fc.name.kind][i] = 0
  /\ ppc' = "appendUser"
  /\ req' = [req EXCEPT !.path = "action"]
  /\ UNCHANGED <<respCache, phist, resp, prev>>
  /\ \E lookupOk \in BOOLEAN, crudOk \in BOOLEAN, svcOk \in BOOLEAN,
        idxOk \in BOOLEAN, delOk \in BOOLEAN :
       LET fn == fc.name
           args == fc.arguments
           seen == [NoAct EXCEPT !.name = fn, !.arguments = args, !.before = db]
       IN
       IF ~(lookupOk /\ ArgsAccepted(fn, args, db))
       THEN /\ act' = seen
            /\ pending' = ActionResult(fc, "threw", req.sessionId)
            /\ failed' = IF lookupOk THEN "none" ELSE "entity lookup"
            /\ UNCHANGED <<db, vstore, trace>>
       ELSE IF ~crudOk
       THEN /\ act' = [seen EXCEPT !.called = TRUE]
            /\ pending' = ActionResult(fc, ExecuteOutcome(FALSE, idxOk), req.sessionId)
            /\ failed' = "CRUD service"
            /\ trace' = Append(trace, "crud_failed")
            /\ UNCHANGED <<db, vstore>>
       ELSE LET i == SubjectId(fn, args, db)
                d1 == Commit(db, fn.op, fn.kind, i)
                s1 == ServiceIndex(vstore, d1, fn.op, fn.kind, i, svcOk, delOk)
            IN
            /\ db' = d1
            /\ vstore' = IF idxOk THEN ExecutorIndex(s1, d1, fn.op, fn.kind, i, delOk)
                         ELSE s1
            /\ act' = [seen EXCEPT !.called = TRUE, !.committed = TRUE,
                                   !.index = IF idxOk THEN "ok" ELSE "failed",
                                   !.id = i]
            /\ pending' = ActionResult(fc, ExecuteOutcome(TRUE, idxOk), req.sessionId)
            /\ failed' = IF idxOk THEN "none" ELSE "indexer"
            /\ trace' = trace \o <<"commit", IF idxOk THEN "index_ok" ELSE "index_failed">>

\* determineFunctionCall yields nothing: the executor asks for more details
ActionUndetermined ==
  /\ UNCHANGED notProc
  /\ ppc = "pipeline"
  /\ QueryRoute(req.query) = "action"
  /\ ppc' = "appendUser"
  /\ req' = [req EXCEPT !.path = "action"]
  /\ pending' = WithMetadata(Response("need_details", {}, req.sessionId),
                              <<"action_execution">>, 0, <<>>)
  /\ UNCHANGED <<db, vstore, respCache, phist, act, trace, resp, prev, failed, nacts>>

\* await addToHistory(sessionId, 'user', query): the call starts
AppendUserCall ==
  /\ UNCHANGED notProc
  /\ ppc = "appendUser"
  /\ ppc' = "userAppending"
  /\ trace' = Append(trace, "user_start")
  /\ UNCHANGED <<db, vstore, respCache, phist, req, pending, act, resp, prev, failed, nacts>>

\* the user turn is in the history and the call returns (addToHistory catches
\* the failures of the summary and of the cache mirror)
AppendUserReturn ==
  /\ UNCHANGED notProc
  /\ ppc = "userAppending"
  /\ ppc' = "appendAssistant"
  /\ trace' = Append(trace, "user_done")
  /\ \E llmOk \in BOOLEAN :
       phist' = [phist EXCEPT ![req.sessionId] =
                   AddToHistory(@, [role |-> "user", seq |-> 2 * req.no - 1], llmOk)]
  /\ UNCHANGED <<db, vstore, respCache, req, pending, act, resp, prev, failed, nacts>>

\* mutant: the user append is not awaited
UserAppendAwaited_Not == ppc \in {"userAppending", "appendAssistant"}

\* processQuery goes on to the assistant append only when the awaited user
\* append has returned
UserAppendAwaited == ppc = "appendAssistant"

\* await addToHistory(sessionId, 'assistant', answer): the call starts
AppendAssistantCall ==
  /\ UNCHANGED notProc
  /\ UserAppendAwaited
  /\ ppc' = "assistantAppending"
  /\ trace' = Append(trace, "assistant_start")
  /\ UNCHANGED <<db, vstore, respCache, phist, req, pending, act, resp, prev, failed, nacts>>

AppendAssistantReturn ==
  /\ UNCHANGED notProc
  /\ ppc = "assistantAppending"
  /\ ppc' = "respond"
  /\ trace' = Append(trace, "assistant_done")
  /\ \E llmOk \in BOOLEAN :
       phist' = [phist EXCEPT ![req.sessionId] =
                   AddToHistory(@, [role |-> "assistant", seq |-> 2 * req.no], llmOk)]
  /\ UNCHANGED <<db, vstore, respCache, req, pending, act, resp, prev, failed, nacts>>

\* the response is returned; the full pipeline first writes it to the
\* response cache, inside the try block
Respond ==
  /\ UNCHANGED notProc
  /\ ppc = "respond"
  /\ ppc' = "returned"
  /\ trace' = Append(trace, "returned")
  /\ UNCHANGED <<db, vstore, phist, req, pending, act, prev, nacts>>
  /\ IF req.path # "full"
     THEN /\ resp' = pending
          /\ UNCHANGED <<respCache, failed>>
     ELSE \E cacheOk \in BOOLEAN :
            IF cacheOk
            THEN /\ respCache' = [respCache EXCEPT ![generateCacheKey(req.query)] =
                                    [pending EXCEPT !.writer = req.no]]
                 /\ resp' = pending
                 /\ UNCHANGED failed
            ELSE /\ resp' = ErrorResponse(req.sessionId)
                 /\ failed' = "response cache"
                 /\ UNCHANGED respCache

\* a response cache entry expires (TTL 5 min) or is evicted
ExpireResponse(key) ==
  /\ UNCHANGED notProc
  /\ respCache[key] # NoResp
  /\ respCache' = [respCache EXCEPT ![key] = NoResp]
  /\ UNCHANGED <<db, vstore, phist, ppc, req, pending, act, trace, resp, prev, failed, nacts>>

Collaborators == {"LLM", "embedding", "vector store"}

ProcNext ==
  \/ \E q \in Queries, s \in CallerSessions \cup {NoSession} : Receive(q, s)
  \/ CacheLookup
  \/ \E who \in Collaborators : PipelineFails(who)
  \/ \E answer \in Templates : QuickIntentPath(answer)
  \/ \E answer \in Answers, sources \in SourceChoices : FullPath(answer, sources)
  \/ \E answer \in Answers, sources \in SourceChoices, matches \in MatchCounts :
       ShortcutPath(answer, sources, matches)
  \/ \E fc \in FunctionCalls : ActionPath(fc)
  \/ ActionUndetermined
  \/ AppendUserCall
  \/ AppendUserReturn
  \/ AppendAssistantCall
  \/ AppendAssistantReturn
  \/ Respond
  \/ \E key \in CacheKeys : ExpireResponse(key)

\* ========================================================================
\* RagService.processQueryStream: the events one run emits to its subscriber
\* ========================================================================

ChunkTexts == {"x", "y"}

Event(type, data) == [type |-> type, data |-> data]

\* subscriber.next(event)
Emit(evs) == sevents' = sevents \o evs

StatusEvent(message) == Event("status", message)

\* mutant: the sources event is not sent
SourcesThenStatus_NoSources == <<StatusEvent("Generating answer...")>>

\* after the search: the sources event, then the status "Generating answer..."
SourcesThenStatus == <<Event("sources", ""), StatusEvent("Generating answer...")>>

StreamInit ==
  /\ spc = "idle"
  /\ sevents = <<>>
  /\ scomplex = FALSE
  /\ sanswer = <<>>

\* the subscription starts the run: a session id is generated and the start
\* event is sent; getHistory is awaited (it never throws)
StreamStart(complex) ==
  /\ UNCHANGED notStream
  /\ spc = "idle"
  /\ spc' = "history"
  /\ scomplex' = complex
  /\ Emit(<<Event("start", "")>>)
  /\ UNCHANGED sanswer

\* the history is there: status "Analyzing query...", then classifyQuery
StreamAnalyze ==
  /\ UNCHANGED notStream
  /\ spc = "history"
  /\ spc' = "classify"
  /\ Emit(<<StatusEvent("Analyzing query...")>>)
  /\ UNCHANGED <<scomplex, sanswer>>

\* classifyQuery has answered: reformulateQuery for a complex query, else
\* extractFilters
StreamClassified ==
  /\ UNCHANGED notStream
  /\ spc = "classify"
  /\ spc' = IF scomplex THEN "reformulate" ELSE "filters"
  /\ UNCHANGED <<sevents, scomplex, sanswer>>

StreamReformulated ==
  /\ UNCHANGED notStream
  /\ spc = "reformulate"
  /\ spc' = "filters"
  /\ UNCHANGED <<sevents, scomplex, sanswer>>

\* extractFilters has answered: status "Searching database...", then the search
StreamFiltered ==
  /\ UNCHANGED notStream
  /\ spc = "filters"
  /\ spc' = "search"
  /\ Emit(<<StatusEvent("Searching database...")>>)
  /\ UNCHANGED <<scomplex, sanswer>>

\* executeHybridSearch has answered: sources, status, then the generation
StreamSearched ==
  /\ UNCHANGED notStream
  /\ spc = "search"
  /\ spc' = "generate"
  /\ Emit(SourcesThenStatus)
  /\ UNCHANGED <<scomplex, sanswer>>

\* the LLM stream delivers a piece of the answer: onChunk sends a chunk event
StreamChunk(text) ==
  /\ UNCHANGED notStream
  /\ spc = "generate"
  /\ Len(sanswer) < MaxChunks
  /\ sanswer' = Append(sanswer, text)
  /\ Emit(<<Event("chunk", text)>>)
  /\ UNCHANGED <<spc, scomplex>>

\* the LLM stream is done: the two turns are appended to the history
StreamGenerated ==
  /\ UNCHANGED notStream
  /\ spc = "generate"
  /\ spc' = "history_update"
  /\ UNCHANGED <<sevents, scomplex, sanswer>>

\* both addToHistory calls have returned: the complete event, then
\* subscriber.complete()
StreamComplete ==
  /\ UNCHANGED notStream
  /\ spc = "history_update"
  /\ spc' = "completed"
  /\ Emit(<<Event("complete", "")>>)
  /\ UNCHANGED <<scomplex, sanswer>>

\* an awaited call rejects (classifyQuery, reformulateQuery, extractFilters,
\* executeHybridSearch, generateAnswerStream): the catch block sends the error
\* event, then subscriber.error(error)
StreamFails ==
  /\ UNCHANGED notStream
  /\ spc \in {"classify", "reformulate", "filters", "search", "generate"}
  /\ spc' = "errored"
  /\ Emit(<<Event("error", "")>>)
  /\ UNCHANGED <<scomplex, sanswer>>

StreamNext ==
  \/ \E complex \in BOOLEAN : StreamStart(complex)
  \/ StreamAnalyze
  \/ StreamClassified
  \/ StreamReformulated
  \/ StreamFiltered
  \/ StreamSearched
  \/ \E text \in ChunkTexts : StreamChunk(text)
  \/ StreamGenerated
  \/ StreamComplete
  \/ StreamFails

\* ------------------------------------------------------------------------
\* EmbeddingsService: embeddings of texts, cached by the hash of the text
\* ------------------------------------------------------------------------
\* a vector is described by what validateEmbedding looks at: its length and
\* the kinds of values among its elements
\* ("zero", "number", "NaN", "Infinity")
Vector(length, elems) == [length |-> length, elems |-> elems]
NoVector == Vector(-1, {})

\* new Array(this.vectorDimension).fill(0)
ZeroVector == Vector(vectorDimension, {"zero"})

\* what the embedding model can answer with
OllamaVectors ==
  {Vector(n, e) : n \in {vectorDimension - 1, vectorDimension},
                  e \in {{"zero"}, {"number"}, {"zero", "number"},
                         {"number", "NaN"}, {"number", "Infinity"}}}
OllamaThrew == Vector(-2, {})
OllamaOutcomes == OllamaVectors \cup {OllamaThrew}

\* the texts embedded: "a", " a" and "b"
EmbedTexts == {<<97>>, <<32, 97>>, <<98>>}
BatchTexts ==
  UNION {[1..n -> EmbedTexts] : n \in 1..MaxBatch}

\* trim, then collapse runs of whitespace (the texts are in NFC, shorter than
\* maxTextLength and free of control characters)
preprocessText(text) == CollapseSpaces(Trim(text))

\* the md5 digest of the processed text, one per text
embeddingCacheKey(text) == [md5 |-> text]
EmbeddingCacheKeys == {embeddingCacheKey(preprocessText(t)) : t \in EmbedTexts}

validateEmbedding(embedding) ==
  /\ embedding.length = vectorDimension
  /\ "NaN" \notin embedding.elems
  /\ embedding.elems # {"zero"}
  /\ "Infinity" \notin embedding.elems

NoEmbedCall == [call |-> "none", texts |-> <<>>, outcome |-> "none", vectors |-> <<>>]

EmbedInit ==
  /\ embeddingCache = [key \in EmbeddingCacheKeys |-> NoVector]
  /\ embedded = NoEmbedCall

\* generateEmbedding(text): a cached vector is returned as it is; a new one is
\* validated, cached and returned, and the call rejects when the model fails
\* or the vector is invalid
generateEmbedding(text, out) ==
  /\ UNCHANGED notEmbed
  /\ LET key == embeddingCacheKey(preprocessText(text))
         cachedEmbedding == embeddingCache[key]
     IN
     IF cachedEmbedding # NoVector
     THEN /\ embedded' = [call |-> "single", texts |-> <<text>>, outcome |-> "ok",
                          vectors |-> <<cachedEmbedding>>]
          /\ UNCHANGED embeddingCache
     ELSE IF out = OllamaThrew \/ ~validateEmbedding(out)
     THEN /\ embedded' = [call |-> "single", texts |-> <<text>>, outcome |-> "threw",
                          vectors |-> <<>>]
          /\ UNCHANGED embeddingCache
     ELSE /\ embedded' = [call |-> "single", texts |-> <<text>>, outcome |-> "ok",
                          vectors |-> <<out>>]
          /\ embeddingCache' = [embeddingCache EXCEPT ![key] = out]

\* the vector the batch loop pushes for one text that is not in the cache
BatchItem(out) == IF validateEmbedding(out) THEN out ELSE ZeroVector

\* the loop of generateBatchEmbeddings from item i on: [cache, vectors, outcome]
RECURSIVE BatchFrom(_, _, _, _, _)
BatchFrom(cache, texts, outs, i, embeddings) ==
  IF i > Len(texts)
  THEN [cache |-> cache, vectors |-> embeddings, outcome |-> "ok"]
  ELSE LET key == embeddingCacheKey(preprocessText(texts[i])) IN
       IF cache[key] # NoVector
       THEN BatchFrom(cache, texts, outs, i + 1, Append(embeddings, cache[key]))
       ELSE IF outs[i] = OllamaThrew
       THEN [cache |-> cache, vectors |-> <<>>, outcome |-> "threw"]
       ELSE BatchFrom([cache EXCEPT ![key] = BatchItem(outs[i])], texts, outs, i + 1,
                      Append(embeddings, BatchItem(outs[i])))

generateBatchEmbeddings(texts, outs) ==
  /\ UNCHANGED notEmbed
  /\ LET done == BatchFrom(embeddingCache, texts, outs, 1, <<>>) IN
     /\ embeddingCache' = done.cache
     /\ embedded' = [call |-> "batch", texts |-> texts, outcome |-> done.outcome,
                     vectors |-> done.vectors]

\* the timer set by cacheEmbedding deletes the key after cacheTTL
EmbeddingExpires(key) ==
  /\ UNCHANGED notEmbed
  /\ embeddingCache[key] # NoVector
  /\ embeddingCache' = [embeddingCache EXCEPT ![key] = NoVector]
  /\ UNCHANGED embedded

EmbedNext ==
  \/ \E text \in EmbedTexts, out \in OllamaOutcomes : generateEmbedding(text, out)
  \/ \E texts \in BatchTexts :
       \E outs \in [1..Len(texts) -> OllamaOutcomes] : generateBatchEmbeddings(texts, outs)
  \/ \E key \in EmbeddingCacheKeys : EmbeddingExpires(key)

\* ------------------------------------------------------------------------
\* IndexingService under any sequence of row changes and index operations
\* ------------------------------------------------------------------------
IndexKinds == {"task", "user"}
IndexIds == {1}
Deadlines == {NoDeadline, 1}

NoIndexOp ==
  [op |-> "none", kind |-> "none", id |-> 0, ok |-> FALSE, had |-> FALSE,
   repeated |-> FALSE, before |-> {}]
IndexOpDone(op, k, i, ok, repeated) ==
  [op |-> op, kind |-> k, id |-> i, ok |-> ok, had |-> DocsOf(points, k, i) # {},
   repeated |-> repeated, before |-> IF repeated THEN points ELSE {}]

IndexInit ==
  /\ irows = [k \in Kinds |-> [i \in Ids |-> 0]]
  /\ ideadlines = NoDeadlines
  /\ points = {}
  /\ clock = 0
  /\ ilast = NoIndexOp

\* a CRUD service saves a new version of a row
SaveRow(k, i, deadline) ==
  /\ UNCHANGED notIndex
  /\ irows[k][i] < MaxVersion
  /\ k # "task" => deadline = NoDeadline
  /\ irows' = [irows EXCEPT ![k][i] = @ + 1]
  /\ ideadlines' = IF k = "task" THEN [ideadlines EXCEPT ![i] = deadline] ELSE ideadlines
  /\ ilast' = [NoIndexOp EXCEPT !.op = "save"]
  /\ UNCHANGED <<points, clock>>

\* a CRUD service removes a row
RemoveRow(k, i) ==
  /\ UNCHANGED notIndex
  /\ irows[k][i] > 0
  /\ irows' = [irows EXCEPT ![k][i] = 0]
  /\ ilast' = [NoIndexOp EXCEPT !.op = "remove"]
  /\ UNCHANGED <<ideadlines, points, clock>>

\* indexTask / indexUser: on a failure (embedding, upsert) nothing is written
IndexOp(k, i, ok) ==
  /\ UNCHANGED notIndex
  /\ points' = IF ok THEN IndexEntityAt(points, irows, ideadlines, k, i, clock) ELSE points
  /\ ilast' = IndexOpDone("index", k, i, ok, FALSE)
  /\ UNCHANGED <<irows, ideadlines, clock>>

\* reindexEntity: the delete may fail and is tolerated; when the index step
\* fails, what the delete did stays
ReindexOp(k, i, delOk, ok) ==
  /\ UNCHANGED notIndex
  /\ points' = IF ok THEN reindexEntityAt(points, irows, ideadlines, k, i, delOk, clock)
               ELSE IF delOk THEN deleteFromIndex(points, k, i)
               ELSE points
  /\ ilast' = IndexOpDone("reindex", k, i, ok,
                          /\ ilast.op = "reindex"
                          /\ ilast.ok
                          /\ ilast.kind = k
                          /\ ilast.id = i)
  /\ UNCHANGED <<irows, ideadlines, clock>>

\* deleteFromIndex
DeleteOp(k, i, ok) ==
  /\ UNCHANGED notIndex
  /\ points' = IF ok THEN deleteFromIndex(points, k, i) ELSE points
  /\ ilast' = IndexOpDone("delete", k, i, ok, FALSE)
  /\ UNCHANGED <<irows, ideadlines, clock>>

\* time passes
Tick ==
  /\ UNCHANGED notIndex
  /\ clock < MaxNow
  /\ clock' = clock + 1
  /\ UNCHANGED <<irows, ideadlines, points, ilast>>

IndexNext ==
  \/ \E k \in IndexKinds, i \in IndexIds, deadline \in Deadlines : SaveRow(k, i, deadline)
  \/ \E k \in IndexKinds, i \in IndexIds : RemoveRow(k, i)
  \/ \E k \in IndexKinds, i \in IndexIds, ok \in BOOLEAN : IndexOp(k, i, ok)
  \/ \E k \in IndexKinds, i \in IndexIds, delOk \in BOOLEAN, ok \in BOOLEAN :
       ReindexOp(k, i, delOk, ok)
  \/ \E k \in IndexKinds, i \in IndexIds, ok \in BOOLEAN : DeleteOp(k, i, ok)
  \/ Tick

\* every specification starts from the state after construction
\* ------------------------------------------------------------------------
\* The context processor (RetrievalService.processRetrievedDocs)
\* ------------------------------------------------------------------------

\* the most documents handed to the context processor
MaxDocs == 11

\* the documents of a list whose score and text are chosen freely; the
\* documents after them are copies of Filler under their own ids
MaxFree == 5

\* how many documents rerank keeps, and how many applyMMR selects
RerankLimit == 10
MMRLimit == 5

\* lambda of applyMMR, in hundredths
Lambda == 85

\* scores, in whole units
Scores == {1, 2}

\* texts, as the sets of words textSimilarity splits them into
Words == {"a", "b"}
Texts == (SUBSET Words) \ {{}}

\* the common denominator of the similarities of two texts
SimDen == 2

RetrievedDoc(id, score, text) == [id |-> id, score |-> score, text |-> text]

Filler(id) == RetrievedDoc(id, 1, {"a"})

\* |intersection| / |union| of the word sets, in units of 1 / SimDen
textSimilarity(text1, text2) ==
  (Cardinality(text1 \cap text2) * SimDen) \div Cardinality(text1 \cup text2)

MaxOf(S) == CHOOSE x \in S : \A y \in S : y <= x

\* lambda * score - (1 - lambda) * maxSim, in units of 1 / (100 * SimDen)
mmrScore(doc, selected) ==
  LET maxSim == MaxOf({textSimilarity(doc.text, selected[j].text) : j \in 1..Len(selected)})
  IN Lambda * doc.score * SimDen - (100 - Lambda) * maxSim

\* the first index of remaining with the greatest MMR score (the loop keeps
\* the earlier one on a tie, the comparison being strict)
bestIdx(remaining, selected) ==
  CHOOSE i \in 1..Len(remaining) :
    /\ \A j \in 1..Len(remaining) :
         mmrScore(remaining[j], selected) <= mmrScore(remaining[i], selected)
    /\ \A j \in 1..(i - 1) :
         mmrScore(remaining[j], selected) < mmrScore(remaining[i], selected)

\* Array.prototype.splice(i, 1)
Splice(seq, i) == SubSeq(seq, 1, i - 1) \o SubSeq(seq, i + 1, Len(seq))

RECURSIVE MMRLoop(_, _)
MMRLoop(selected, remaining) ==
  IF Len(selected) < MMRLimit /\ Len(remaining) > 0
  THEN LET i == bestIdx(remaining, selected)
       IN MMRLoop(Append(selected, remaining[i]), Splice(remaining, i))
  ELSE selected

applyMMR_All(docs) == docs

applyMMR(docs) ==
  IF Len(docs) = 0 THEN <<>> ELSE MMRLoop(<<docs[1]>>, Tail(docs))

\* where doc goes in a list sorted by score descending: after every document
\* that does not score less (Array.prototype.sort is stable)
RECURSIVE InsertByScore(_, _)
InsertByScore(sorted, doc) ==
  IF sorted = <<>> THEN <<doc>>
  ELSE IF sorted[1].score >= doc.score
       THEN <<sorted[1]>> \o InsertByScore(Tail(sorted), doc)
       ELSE <<doc>> \o sorted

RECURSIVE SortByScore(_)
SortByScore(docs) ==
  IF docs = <<>> THEN <<>>
  ELSE InsertByScore(SortByScore(SubSeq(docs, 1, Len(docs) - 1)), docs[Len(docs)])

Take(seq, n) == SubSeq(seq, 1, IF Len(seq) < n THEN Len(seq) ELSE n)

NotRetrieved == [done |-> FALSE, rerankedDocs |-> <<>>, diverseDocs |-> <<>>]

processRetrievedDocs(docs) ==
  LET rerankedDocs == Take(SortByScore(docs), RerankLimit)
  IN [done |-> TRUE,
      rerankedDocs |-> rerankedDocs,
      diverseDocs |-> IF Len(rerankedDocs) >= MMRLimit
                      THEN applyMMR(rerankedDocs)
                      ELSE rerankedDocs]

RetrInit ==
  /\ globalDocs = <<>>
  /\ retrieved = NotRetrieved

\* the search hands over one more document
Retrieve(score, text) ==
  /\ UNCHANGED notRetr
  /\ ~retrieved.done
  /\ Len(globalDocs) < MaxDocs
  /\ LET id == Len(globalDocs) + 1
     IN globalDocs' = Append(globalDocs,
                             IF id <= MaxFree THEN RetrievedDoc(id, score, text)
                                              ELSE Filler(id))
  /\ UNCHANGED retrieved

ProcessRetrievedDocs ==
  /\ UNCHANGED notRetr
  /\ ~retrieved.done
  /\ retrieved' = processRetrievedDocs(globalDocs)
  /\ UNCHANGED globalDocs

RetrNext ==
  \/ \E score \in Scores, text \in Texts : Retrieve(score, text)
  \/ ProcessRetrievedDocs

\* ------------------------------------------------------------------------
\* Reciprocal rank fusion (SearchService.reciprocalRankFusion)
\* ------------------------------------------------------------------------

\* the ids of the documents a search can find, and the longest result list
MaxDocIds == 4
MaxRank == 3

\* how many result lists are fused: the vector list and the BM25 list
NumLists == 2

DocIds == 1..MaxDocIds

\* the default k of reciprocalRankFusion
RRF_K == 60

\* fused scores are sums of unit fractions: exact fractions n / d
Frac(n, d) == <<n, d>>
FracAdd(a, b) == Frac(a[1] * b[2] + b[1] * a[2], a[2] * b[2])
FracLess(a, b) == a[1] * b[2] < b[1] * a[2]
FracEq(a, b) == a[1] * b[2] = b[1] * a[2]

\* 1 / (k + rank + 1), rank counted from 0
rrfScore(k, rank) == Frac(1, k + rank + 1)

Accumulate_Replace(existing, score) == score

\* existing.score += rrfScore
Accumulate(existing, score) == FracAdd(existing, score)

\* the index of the entry of id in the score map, 0 when it has none
EntryOf(scoreMap, id) ==
  IF \E i \in 1..Len(scoreMap) : scoreMap[i].id = id
  THEN CHOOSE i \in 1..Len(scoreMap) : scoreMap[i].id = id
  ELSE 0

\* docs.forEach((doc, rank) => ...) from position pos on; the score map is
\* the sequence of its entries in insertion order
RECURSIVE ScoreList(_, _, _, _)
ScoreList(scoreMap, docs, pos, k) ==
  IF pos > Len(docs) THEN scoreMap
  ELSE LET score == rrfScore(k, pos - 1)
           i == EntryOf(scoreMap, docs[pos])
       IN ScoreList(IF i # 0
                    THEN [scoreMap EXCEPT ![i].score = Accumulate(@, score)]
                    ELSE Append(scoreMap, [id |-> docs[pos], score |-> score]),
                    docs, pos + 1, k)

RECURSIVE ScoreLists(_, _, _)
ScoreLists(scoreMap, lists, k) ==
  IF lists = <<>> THEN scoreMap
  ELSE ScoreLists(ScoreList(scoreMap, lists[1], 1, k), Tail(lists), k)

\* where an entry goes in a list sorted by fused score descending: after
\* every entry that does not score less (the sort is stable)
RECURSIVE InsertByFused(_, _)
InsertByFused(sorted, entry) ==
  IF sorted = <<>> THEN <<entry>>
  ELSE IF FracLess(sorted[1].score, entry.score)
       THEN <<entry>> \o sorted
       ELSE <<sorted[1]>> \o InsertByFused(Tail(sorted), entry)

RECURSIVE SortByFused(_)
SortByFused(entries) ==
  IF entries = <<>> THEN <<>>
  ELSE InsertByFused(SortByFused(SubSeq(entries, 1, Len(entries) - 1)),
                     entries[Len(entries)])

\* a document is modelled by its id: its other fields are those of its first
\* appearance and play no part in the fusion
reciprocalRankFusion(lists, k) == SortByFused(ScoreLists(<<>>, lists, k))

NotFused == [done |-> FALSE, docs |-> <<>>]

FuseInit ==
  /\ docLists = [l \in 1..NumLists |-> <<>>]
  /\ fused = NotFused

\* a search returns one more point; the points of one result list are
\* different points of the collection
Found(l, id) ==
  /\ UNCHANGED notFuse
  /\ ~fused.done
  /\ Len(docLists[l]) < MaxRank
  /\ \A p \in 1..Len(docLists[l]) : docLists[l][p] # id
  /\ docLists' = [docLists EXCEPT ![l] = Append(@, id)]
  /\ UNCHANGED fused

Fuse ==
  /\ UNCHANGED notFuse
  /\ ~fused.done
  /\ fused' = [done |-> TRUE, docs |-> reciprocalRankFusion(docLists, RRF_K)]
  /\ UNCHANGED docLists

FuseNext ==
  \/ \E l \in 1..NumLists, id \in DocIds : Found(l, id)
  \/ Fuse

\* ------------------------------------------------------------------------
\* Filter extraction and hybrid search (IntentClassificationService
\* .extractFilters, SearchService, QdrantService.searchVectors / scrollPoints)
\* ------------------------------------------------------------------------

\* the values of TaskStatus, which task documents carry in task_status
TaskStatuses == {"todo", "in_progress", "done"}

\* a document of the collection, with the words of its text
SearchDoc(id, entityType, metadata, words) ==
  [id |-> id, entity_type |-> entityType, metadata |-> metadata, words |-> words]

\* the collection searched: an overdue task, an urgent one in progress, a
\* finished one, a user, a team, a project, and the two synthetic documents
\* (the system requirements and the application statistics)
Collection ==
  {SearchDoc(1, "task", Metadata("todo", Days(0 - 1)), {"tasks", "report", "overdue"}),
   SearchDoc(2, "task", Metadata("in_progress", Days(1)), {"tasks", "report", "progress"}),
   SearchDoc(3, "task", Metadata("done", NullDays), {"tasks", "report"}),
   SearchDoc(4, "user", Metadata("none", NullDays), {"users", "report"}),
   SearchDoc(5, "team", Metadata("none", NullDays), {"teams", "tasks"}),
   SearchDoc(6, "project", Metadata("none", NullDays), {"projects", "report"}),
   SearchDoc(7, "system_info", Metadata("none", NullDays), {"requirements", "report"}),
   SearchDoc(8, "statistics", Metadata("none", NullDays), {"statistics", "tasks"})}

\* the ids of the collection in the order of a scroll
ScrollOrder == <<1, 2, 3, 4, 5, 6, 7, 8>>

DocOf(id) == CHOOSE doc \in Collection : doc.id = id

\* the terms a query is made of
QueryTerms == {"overdue", "urgent", "done", "to do", "in progress", "tasks", "report"}

\* query.toLowerCase().split(/\s+/).filter(w => w.length > 2) on one term
KeywordsOf(term) ==
  IF term = "in progress" THEN {"progress"}
  ELSE IF term = "to do" THEN {}
  ELSE {term}
Keywords(query) == UNION {KeywordsOf(term) : term \in query}

\* what the reformulation adds to the query itself
Reformulations == {<<>>, <<{"report"}>>}

\* the orders in which the vector store can rank the collection by similarity
Rankings == {ScrollOrder, <<8, 7, 6, 5, 4, 3, 2, 1>>}

\* the limits of the vector search, of the scroll and of the BM25 result
VectorLimit == 10
ScrollLimit == 60
Bm25Limit == 10

\* the value of filters.entity_type: undefined, a string or an array
Undefined == [tag |-> "undefined", str |-> "", arr |-> {}]
Str(x) == [tag |-> "string", str |-> x, arr |-> {}]
Arr(xs) == [tag |-> "array", str |-> "", arr |-> xs]

NoFilters ==
  [entity_type |-> Undefined, entity_types |-> Undefined, metadata_type |-> "none",
   is_overdue |-> FALSE, is_urgent |-> FALSE, task_status |-> "none"]

\* what extractEntityTypes answers: a set of kinds, or it throws
Threw == [threw |-> TRUE, types |-> {}]
Extracted(types) == [threw |-> FALSE, types |-> types]
ExtractedKinds == {"task", "user", "team"}
ExtractionOutcomes == {Threw} \cup {Extracted(types) : types \in SUBSET ExtractedKinds}

\* the classifications that extractFilters answers with a metadata type only
SpecialTypes == {"requirements", "statistics", "help"}
QueryTypes == {"question"} \cup SpecialTypes

\* the metadata type of the filters of a special classification
MetadataType(type) == IF type = "statistics" THEN "statistics" ELSE "system_info"

\* extractEntityTypes is not called
NotCalled == [threw |-> FALSE, types |-> {}]

Intents == {"task_management", "general"}

\* the fallback of extractFilters when extractEntityTypes throws
IntentEntity(intent) ==
  IF intent = "task_management" THEN Str("task") ELSE Undefined

\* the keyword-based status extraction, the later assignment winning
StatusOf(query) ==
  IF "done" \in query THEN "done"
  ELSE IF "in progress" \in query THEN "in progress"
  ELSE IF "to do" \in query THEN "to do"
  ELSE "none"

extractFilters(query, type, intent, extraction) ==
  IF type \in SpecialTypes THEN [NoFilters EXCEPT !.metadata_type = MetadataType(type)]
  ELSE [NoFilters EXCEPT
          !.entity_types = IF ~extraction.threw /\ Cardinality(extraction.types) > 1
                           THEN Arr(extraction.types) ELSE Undefined,
          !.entity_type = IF extraction.threw THEN IntentEntity(intent)
                          ELSE IF Cardinality(extraction.types) = 1
                               THEN Str(CHOOSE t \in extraction.types : TRUE)
                               ELSE Undefined,
          !.is_overdue = "overdue" \in query,
          !.is_urgent = "urgent" \in query,
          !.task_status = StatusOf(query)]

\* a condition of a Qdrant filter; values are written as strings
Cond(key, value) == [key |-> key, value |-> value]

\* a Qdrant filter: the must and should clauses it has
NoQFilter == [defined |-> FALSE, hasMust |-> FALSE, must |-> {}, should |-> {}]
QFilter(must, should) ==
  [defined |-> TRUE, hasMust |-> must # {}, must |-> must, should |-> should]

\* the conditions built from filters.entity_type
EntityMust(filters) ==
  IF filters.entity_type.tag = "string"
  THEN {Cond("entity_type", filters.entity_type.str)} ELSE {}
EntityShould(filters) ==
  IF filters.entity_type.tag = "array"
  THEN {Cond("entity_type", t) : t \in filters.entity_type.arr} ELSE {}

\* the conditions built from the metadata keys of the filters
MetadataMust(filters) ==
  (IF filters.is_overdue THEN {Cond("metadata.is_overdue", "true")} ELSE {})
  \cup (IF filters.is_urgent THEN {Cond("metadata.is_urgent", "true")} ELSE {})
  \cup (IF filters.task_status # "none"
        THEN {Cond("metadata.task_status", filters.task_status)} ELSE {})

\* the filter vectorSearch hands to searchVectors
vectorSearchFilter(filters) ==
  LET must == EntityMust(filters) \cup MetadataMust(filters)
      should == EntityShould(filters)
  IN IF must = {} /\ should = {} THEN NoQFilter ELSE QFilter(must, should)

\* the filter bm25Search hands to scrollPoints
bm25SearchFilter(filters) ==
  LET must == EntityMust(filters)
      should == EntityShould(filters)
  IN IF must = {} /\ should = {} THEN NoQFilter ELSE QFilter(must, should)

\* the filter searchVectors puts in the request
searchVectorsFilter(filter) ==
  IF filter.defined /\ filter.hasMust /\ filter.must # {} THEN filter ELSE NoQFilter

\* the filter scrollPoints puts in the request
scrollPointsFilter(filter) ==
  IF filter.defined /\ (filter.must # {} \/ filter.should # {}) THEN filter ELSE NoQFilter

BoolStr(b) == IF b THEN "true" ELSE "false"

FieldOf(doc, key) ==
  IF key = "entity_type" THEN doc.entity_type
  ELSE IF key = "metadata.is_overdue" THEN BoolStr(doc.metadata.is_overdue)
  ELSE IF key = "metadata.is_urgent" THEN BoolStr(doc.metadata.is_urgent)
  ELSE doc.metadata.task_status

\* the store's reading of a filter: every must condition, and one of the
\* should conditions when there are any
Satisfies(doc, filter) ==
  /\ \A c \in filter.must : FieldOf(doc, c.key) = c.value
  /\ filter.should # {} => \E c \in filter.should : FieldOf(doc, c.key) = c.value

\* the ids of a ranking whose documents satisfy the filter
RECURSIVE Matching(_, _)
Matching(ranking, filter) ==
  IF ranking = <<>> THEN <<>>
  ELSE (IF Satisfies(DocOf(ranking[1]), filter) THEN <<ranking[1]>> ELSE <<>>)
       \o Matching(Tail(ranking), filter)

\* client.search: the best matches in the order of the similarity ranking
searchVectors(ranking, limit, filter) ==
  Take(Matching(ranking, searchVectorsFilter(filter)), limit)

\* client.scroll: the first matches in the order of the ids
scrollPoints(filter, limit) ==
  Take(Matching(ScrollOrder, scrollPointsFilter(filter)), limit)

vectorSearch(ranking, filters) ==
  searchVectors(ranking, VectorLimit, vectorSearchFilter(filters))

\* the BM25 score of a document, times the number of keywords: documents of
\* one length holding a keyword once add (k1 + 1) / (1 + k1) = 1 for it
Bm25Score(id, keywords) == Cardinality(keywords \cap DocOf(id).words)

RECURSIVE Scored(_, _)
Scored(ids, keywords) ==
  IF ids = <<>> THEN <<>>
  ELSE (IF Bm25Score(ids[1], keywords) > 0
        THEN <<[id |-> ids[1], score |-> Bm25Score(ids[1], keywords)]>> ELSE <<>>)
       \o Scored(Tail(ids), keywords)

IdsOf(entries) == [p \in 1..Len(entries) |-> entries[p].id]

bm25Search(query, filters) ==
  IF Keywords(query) = {} THEN <<>>
  ELSE IdsOf(Take(SortByScore(Scored(scrollPoints(bm25SearchFilter(filters), ScrollLimit),
                                     Keywords(query))),
                  Bm25Limit))

\* the per-query fusions, one after the other
RECURSIVE AllDocs(_, _, _)
AllDocs(queries, ranking, filters) ==
  IF queries = <<>> THEN <<>>
  ELSE IdsOf(reciprocalRankFusion(<<vectorSearch(ranking, filters),
                                    bm25Search(queries[1], filters)>>, RRF_K))
       \o AllDocs(Tail(queries), ranking, filters)

executeHybridSearch(queries, ranking, filters) ==
  IdsOf(reciprocalRankFusion(<<AllDocs(queries, ranking, filters)>>, RRF_K))

NoInput == [query |-> {}, extraction |-> Threw, type |-> "question"]
NotExtracted == [done |-> FALSE, filters |-> NoFilters]
NotSearched ==
  [done |-> FALSE, threw |-> FALSE, vectorFilter |-> NoQFilter, scrollFilter |-> NoQFilter,
   vectorDocs |-> <<>>, bm25Docs |-> <<>>, hybridDocs |-> <<>>]

SearchInit ==
  /\ sinput = NoInput
  /\ sfilters = NotExtracted
  /\ ssearch = NotSearched

ExtractFilters(query, type, intent, extraction) ==
  /\ UNCHANGED notSearch
  /\ ~sfilters.done
  /\ sinput' = [query |-> query, extraction |-> extraction, type |-> type]
  /\ sfilters' = [done |-> TRUE, filters |-> extractFilters(query, type, intent, extraction)]
  /\ UNCHANGED ssearch

\* executeHybridSearch on the query and its reformulations; it throws when
\* the query cannot be embedded
ExecuteHybridSearch(more, ranking, embedOk) ==
  /\ UNCHANGED notSearch
  /\ sfilters.done
  /\ ~ssearch.done
  /\ ssearch' =
       IF ~embedOk THEN [NotSearched EXCEPT !.done = TRUE, !.threw = TRUE]
       ELSE [done |-> TRUE, threw |-> FALSE,
             vectorFilter |-> vectorSearchFilter(sfilters.filters),
             scrollFilter |-> bm25SearchFilter(sfilters.filters),
             vectorDocs |-> vectorSearch(ranking, sfilters.filters),
             bm25Docs |-> bm25Search(sinput.query, sfilters.filters),
             hybridDocs |-> executeHybridSearch(<<sinput.query>> \o more, ranking,
                                                sfilters.filters)]
  /\ UNCHANGED <<sinput, sfilters>>

SearchNext ==
  \/ \E query \in SUBSET QueryTerms, intent \in Intents,
        extraction \in ExtractionOutcomes :
       ExtractFilters(query, "question", intent, extraction)
  \/ \E query \in SUBSET QueryTerms, type \in SpecialTypes, intent \in Intents :
       ExtractFilters(query, type, intent, NotCalled)
  \/ \E more \in Reformulations, ranking \in Rankings, embedOk \in BOOLEAN :
       ExecuteHybridSearch(more, ranking, embedOk)

\* ------------------------------------------------------------------------
\* Function selection of the action executor (ActionExecutionService
\* .executeAction, retrieveActionContext, determineFunctionCall)
\* ------------------------------------------------------------------------

\* an intent, as the words before and after its first underscore
Intent(head, rest) == [head |-> head, rest |-> rest]

\* the intents of intentToEntity
KnownIntents ==
  {Intent("task", "management"), Intent("user", "info"), Intent("user", "management"),
   Intent("team", "info"), Intent("team", "management"), Intent("project", "info"),
   Intent("project", "management"), Intent("general", "")}

\* the intents the classifier can answer: any word of the LLM
ActionIntents == KnownIntents \cup {Intent("create", "task"), Intent("update", "task")}

\* intentToEntity[intent] || null
getEntityTypeFromIntent(intent) ==
  IF intent \notin KnownIntents THEN "null"
  ELSE IF intent.head = "general" THEN "task"
  ELSE intent.head

formatFunctionName(classification) ==
  LET entity == getEntityTypeFromIntent(classification.intent)
  IN FunctionName(classification.type, IF entity = "null" THEN "task" ELSE entity)

\* what the parameter extraction answers: no JSON, or a call under a name
\* that is one of AVAILABLE_FUNCTIONS or none of them (NoFunction: no call)
UnknownFunction == FunctionName("unknown", "unknown")
ParsedNames == {NoFunction, UnknownFunction} \cup FunctionNames

\* the entity_types of the filters: the kinds, none when it is undefined
EntityTypeSets == {types \in SUBSET Kinds : Cardinality(types) # 1}

\* the kinds retrieveActionContext searches; none: one unfiltered search
ContextKinds(intent, entityTypes) ==
  LET actionType == intent.head
      baseEntityType == getEntityTypeFromIntent(intent)
      forced == IF actionType \in {"create", "update"} /\ baseEntityType # "null"
                THEN entityTypes \cup {baseEntityType, "user"}
                ELSE entityTypes
  IN IF forced = {} /\ baseEntityType # "null" THEN {baseEntityType} ELSE forced

\* the function the switch of executeAction runs for the call it was given
Dispatched(parsed) == IF parsed \in FunctionNames THEN parsed ELSE NoFunction

NoClass ==
  [done |-> FALSE, type |-> "create", intent |-> Intent("general", ""), entity_types |-> {}]
NotExecuted ==
  [done |-> FALSE, funcName |-> NoFunction, own |-> FALSE, contextKinds |-> {},
   executed |-> NoFunction]

ActInit ==
  /\ aclass = NoClass
  /\ aexec = NotExecuted

\* classifyQuery and extractFilters of a request that is an action
ClassifyAction(type, intent, entityTypes) ==
  /\ UNCHANGED notAct
  /\ ~aclass.done
  /\ aclass' = [done |-> TRUE, type |-> type, intent |-> intent, entity_types |-> entityTypes]
  /\ UNCHANGED aexec

\* executeAction, up to the function it runs
ExecuteAction(preRetrieved, parsed) ==
  /\ UNCHANGED notAct
  /\ aclass.done
  /\ ~aexec.done
  /\ aexec' = [done |-> TRUE,
               funcName |-> formatFunctionName(aclass),
               own |-> ~preRetrieved,
               contextKinds |-> IF preRetrieved THEN {}
                                ELSE ContextKinds(aclass.intent, aclass.entity_types),
               executed |-> Dispatched(parsed)]
  /\ UNCHANGED aclass

ActNext ==
  \/ \E type \in Ops, intent \in ActionIntents, entityTypes \in EntityTypeSets :
       ClassifyAction(type, intent, entityTypes)
  \/ \E preRetrieved \in BOOLEAN, parsed \in ParsedNames :
       ExecuteAction(preRetrieved, parsed)

\* ------------------------------------------------------------------------
\* Requests to the LLM server (OllamaService.retryRequest and its callers)
\* ------------------------------------------------------------------------

\* the retries of a non-streaming completion and of an embedding
CompletionRetries == 2
EmbeddingRetries == 3

\* the first delay, in milliseconds
BaseDelay == 1000

\* how one attempt ends: a usable response, a response without the expected
\* field, an HTTP error status, or no response (timeout, connection refused)
AttemptOutcomes == {"ok", "malformed", "404", "400", "500", "network"}

MaxRetriesOf(kind) == IF kind = "completion" THEN CompletionRetries ELSE EmbeddingRetries

NonRetryable_None(outcome) == FALSE

\* isAxiosError(error) && error.response && [404, 400].includes(status)
NonRetryable(outcome) == outcome \in {"404", "400"}

RECURSIVE Pow2(_)
Pow2(n) == IF n = 0 THEN 1 ELSE 2 * Pow2(n - 1)

\* Math.pow(2, attempt) * 1000
BackoffDelay(attempt) == Pow2(attempt) * BaseDelay

NoCall ==
  [pc |-> "idle", kind |-> "none", attempt |-> 0, outcomes |-> <<>>, delays |-> <<>>,
   error |-> "none"]

RetryInit == rcall = NoCall

\* generateCompletion without streaming, or generateEmbedding, is called
StartRequest(kind) ==
  /\ UNCHANGED notRetry
  /\ rcall.pc = "idle"
  /\ rcall' = [NoCall EXCEPT !.pc = "request", !.kind = kind]

\* one pass of the loop of retryRequest: requestFn answers or throws
Attempt(outcome) ==
  /\ UNCHANGED notRetry
  /\ rcall.pc = "request"
  /\ LET tried == [rcall EXCEPT !.outcomes = Append(@, outcome)]
     IN rcall' =
          IF outcome = "ok" THEN [tried EXCEPT !.pc = "returned"]
          ELSE IF outcome = "malformed"
               THEN [tried EXCEPT !.pc = "threw", !.error = "format"]
          ELSE IF NonRetryable(outcome) \/ rcall.attempt >= MaxRetriesOf(rcall.kind)
               THEN [tried EXCEPT !.pc = "threw", !.error = outcome]
          ELSE [tried EXCEPT !.pc = "delay",
                             !.delays = Append(@, BackoffDelay(rcall.attempt))]

\* the delay elapses and the loop goes on
Backoff ==
  /\ UNCHANGED notRetry
  /\ rcall.pc = "delay"
  /\ rcall' = [rcall EXCEPT !.pc = "request", !.attempt = @ + 1]

RetryNext ==
  \/ \E kind \in {"completion", "embedding"} : StartRequest(kind)
  \/ \E outcome \in AttemptOutcomes : Attempt(outcome)
  \/ Backoff

\* ------------------------------------------------------------------------
\* Quick intents (IntentClassificationService.detectQuickIntent)
\* ------------------------------------------------------------------------

\* the quick-intent checks of one run
MaxQuick == 3

\* hi hello hey howdy greetings
GreetingWords ==
  {<<104, 105>>,
   <<104, 101, 108, 108, 111>>,
   <<104, 101, 121>>,
   <<104, 111, 119, 100, 121>>,
   <<103, 114, 101, 101, 116, 105, 110, 103, 115>>}
\* morning afternoon evening
DayParts ==
  {<<109, 111, 114, 110, 105, 110, 103>>,
   <<97, 102, 116, 101, 114, 110, 111, 111, 110>>,
   <<101, 118, 101, 110, 105, 110, 103>>}
\* bye goodbye farewell cya later
GoodbyeWords ==
  {<<98, 121, 101>>,
   <<103, 111, 111, 100, 98, 121, 101>>,
   <<102, 97, 114, 101, 119, 101, 108, 108>>,
   <<99, 121, 97>>,
   <<108, 97, 116, 101, 114>>}
\* thank thanks appreciate ty
ThankWords ==
  {<<116, 104, 97, 110, 107>>,
   <<116, 104, 97, 110, 107, 115>>,
   <<97, 112, 112, 114, 101, 99, 105, 97, 116, 101>>,
   <<116, 121>>}
\* create update delete add remove
CrudVerbs ==
  {<<99, 114, 101, 97, 116, 101>>,
   <<117, 112, 100, 97, 116, 101>>,
   <<100, 101, 108, 101, 116, 101>>,
   <<97, 100, 100>>,
   <<114, 101, 109, 111, 118, 101>>}
WordGood == <<103, 111, 111, 100>>
WordSee == <<115, 101, 101>>
WordThank == <<116, 104, 97, 110, 107>>
WordYou == <<121, 111, 117>>

\* [A-Za-z0-9_]
IsWordChar(c) == c \in (48..57) \cup (65..90) \cup (97..122) \cup {95}

\* \b after a word: the rest is empty or does not start with a word character
Boundary(rest) == rest = <<>> \/ ~IsWordChar(Head(rest))

\* ^(w1|w2|...)\b
StartsWithWord(str, words) ==
  \E w \in words : StartsWith(str, w) /\ Boundary(DropPrefix(str, w))

\* ^first\s*(w1|w2|...)\b
StartsWithPair(str, first, words) ==
  StartsWith(str, first) /\ StartsWithWord(TrimStart(DropPrefix(str, first)), words)

\* the string has sub somewhere in it
Contains(str, sub) ==
  \E i \in 1..(Len(str) - Len(sub) + 1) : SubSeq(str, i, i + Len(sub) - 1) = sub

GreetingRegex(lower) ==
  StartsWithWord(lower, GreetingWords) \/ StartsWithPair(lower, WordGood, DayParts)

GoodbyeRegex(lower) ==
  StartsWithWord(lower, GoodbyeWords) \/ StartsWithPair(lower, WordSee, {WordYou})

ThankRegex(lower) ==
  StartsWithWord(lower, ThankWords) \/ StartsWithPair(lower, WordThank, {WordYou})

\* the type the regular expressions decide, "none" when they decide nothing
RegexIntent(lower) ==
  IF GreetingRegex(lower) THEN "greeting"
  ELSE IF GoodbyeRegex(lower) THEN "goodbye"
  ELSE IF ThankRegex(lower) /\ Len(lower) < 30 THEN "thank"
  ELSE "none"

AsksLLM_Always(lower) == TRUE

\* lower.length < 50 && !/create|update|delete|add|remove/i.test(lower)
AsksLLM(lower) == Len(lower) < 50 /\ \A verb \in CrudVerbs : ~Contains(lower, verb)

\* what the LLM call ends with: one of the three words, other text, or it throws
QuickAnswers == {"greeting", "goodbye", "thank", "other", "threw"}

QuickResult(type, llmCalls) ==
  [isQuick |-> type # "none", type |-> type, llmCalls |-> llmCalls]

detectQuickIntent(query, llm) ==
  LET lower == Trim(ToLowerCase(query))
  IN IF RegexIntent(lower) # "none" THEN QuickResult(RegexIntent(lower), 0)
     ELSE IF AsksLLM(lower)
          THEN QuickResult(IF llm \in {"greeting", "goodbye", "thank"} THEN llm ELSE "none", 1)
          ELSE QuickResult("none", 0)

QHi ==
  <<104, 105>>
QHello ==
  <<32, 32, 72, 101, 108, 108, 111, 32, 116, 104, 101, 114, 101>>
QHit ==
  <<104, 105, 116, 32, 109, 101>>
QBye ==
  <<98, 121, 101>>
QThanks ==
  <<84, 104, 97, 110, 107, 115>>
QLongThanks ==
  <<116, 104, 97, 110, 107, 115, 32, 102, 111, 114, 32, 97, 108, 108, 32,
    111, 102, 32, 116, 104, 101, 32, 104, 101, 108, 112, 32, 116, 111, 100,
    97, 121>>
QGoodMorning ==
  <<103, 111, 111, 100, 32, 32, 109, 111, 114, 110, 105, 110, 103>>
QWhatsUp ==
  <<119, 104, 97, 116, 32, 105, 115, 32, 117, 112>>
QAddTask ==
  <<97, 100, 100, 32, 97, 32, 116, 97, 115, 107>>
QAddress ==
  <<109, 121, 32, 97, 100, 100, 114, 101, 115, 115, 32, 108, 105, 115, 116>>
QLong ==
  <<112, 108, 101, 97, 115, 101, 32, 116, 101, 108, 108, 32, 109, 101, 32,
    101, 118, 101, 114, 121, 116, 104, 105, 110, 103, 32, 97, 98, 111, 117,
    116, 32, 97, 108, 108, 32, 116, 104, 101, 32, 111, 112, 101, 110, 32,
    112, 114, 111, 106, 101, 99, 116, 115>>
QPadded ==
  <<119, 104, 97, 116, 32, 105, 115, 32, 117, 112, 32, 32, 32, 32, 32, 32,
    32, 32, 32, 32, 32, 32, 32, 32, 32, 32, 32, 32, 32, 32, 32, 32, 32, 32,
    32, 32, 32, 32, 32, 32, 32, 32, 32, 32, 32, 32, 32, 32, 32, 32, 32, 32>>

\* the queries checked: "hi", "  Hello there", "hit me", "bye", "Thanks",
\* "thanks for all of the help today" (32 characters), "good  morning",
\* "what is up", "add a task", "my address list", a query of 53 characters,
\* and "what is up" followed by 42 spaces
QuickQueries ==
  {QHi, QHello, QHit, QBye, QThanks, QLongThanks,
   QGoodMorning, QWhatsUp, QAddTask, QAddress, QLong, QPadded}

NoQuick ==
  [n |-> 0, calls |-> 0, query |-> <<>>, llm |-> "other",
   result |-> QuickResult("none", 0), next |-> "none"]

QuickInit == quick = NoQuick

\* processQuery from detectQuickIntent to the choice between the quick
\* answer and the full classification
DetectQuickIntent(query, llm) ==
  /\ UNCHANGED notQuick
  /\ quick.n < MaxQuick
  /\ LET result == detectQuickIntent(query, llm)
     IN quick' = [n |-> quick.n + 1,
                  calls |-> quick.calls + result.llmCalls,
                  query |-> query,
                  llm |-> IF result.llmCalls = 0 THEN "other" ELSE llm,
                  result |-> result,
                  next |-> IF result.isQuick THEN "quick_intent" ELSE "query_classification"]

QuickNext ==
  \E query \in QuickQueries, llm \in QuickAnswers : DetectQuickIntent(query, llm)

\* ------------------------------------------------------------------------
\* The response cache across writes (RagService.processQuery, one request
\* per step)
\* ------------------------------------------------------------------------

\* the requests and the committed writes of one run
MaxCalls == 4
MaxWrites == 2

\* the read queries, by cache key
ReadKeys == {"list tasks", "list users"}

NotCached == [no |-> 0, writes |-> 0]

NoReply == [no |-> 0, path |-> "none", key |-> "none", entry |-> NotCached]

\* the action branch leaves the response cache as it is
AfterAction(cache) == cache

WriteInit ==
  rcw = [no |-> 0, writes |-> 0, cache |-> [key \in ReadKeys |-> NotCached],
        last |-> NoReply]

\* a read query: answered from the response cache when the key is there,
\* otherwise by the pipeline from the data as it is now, and the response is
\* cached; a rejected cacheManager.set ends in the error response
ProcessRead(key, cacheOk) ==
  /\ UNCHANGED notWrite
  /\ rcw.no < MaxCalls
  /\ LET no == rcw.no + 1
         entry == rcw.cache[key]
         fresh == [no |-> no, writes |-> rcw.writes]
     IN IF entry # NotCached
        THEN rcw' = [rcw EXCEPT !.no = no,
                              !.last = [no |-> no, path |-> "cache_hit", key |-> key,
                                        entry |-> entry]]
        ELSE IF cacheOk
        THEN rcw' = [rcw EXCEPT !.no = no,
                              !.cache[key] = fresh,
                              !.last = [no |-> no, path |-> "full", key |-> key,
                                        entry |-> fresh]]
        ELSE rcw' = [rcw EXCEPT !.no = no,
                              !.last = [no |-> no, path |-> "error", key |-> key,
                                        entry |-> NotCached]]

\* a create, update or delete through the action branch, committed or not
ProcessAction(committed) ==
  /\ UNCHANGED notWrite
  /\ rcw.no < MaxCalls
  /\ committed => rcw.writes < MaxWrites
  /\ rcw' = [rcw EXCEPT !.no = rcw.no + 1,
                      !.writes = IF committed THEN rcw.writes + 1 ELSE rcw.writes,
                      !.cache = AfterAction(rcw.cache),
                      !.last = [no |-> rcw.no + 1, path |-> "action", key |-> "none",
                                entry |-> NotCached]]

\* an entry of the response cache expires (TTL 5 min) or is evicted
ExpireEntry(key) ==
  /\ UNCHANGED notWrite
  /\ rcw.cache[key] # NotCached
  /\ rcw' = [rcw EXCEPT !.cache[key] = NotCached]

WriteNext ==
  \/ \E key \in ReadKeys, cacheOk \in BOOLEAN : ProcessRead(key, cacheOk)
  \/ \E committed \in BOOLEAN : ProcessAction(committed)
  \/ \E key \in ReadKeys : ExpireEntry(key)

Init ==
  /\ ConvInit /\ ProcInit /\ StreamInit /\ EmbedInit /\ IndexInit /\ RetrInit /\ FuseInit
  /\ SearchInit /\ ActInit /\ RetryInit /\ QuickInit /\ WriteInit

\* the conversation store under concurrent handlers
SpecConv == Init /\ [][ConvNext]_vars

\* the orchestrator handling one request at a time
SpecProc == Init /\ [][ProcNext]_vars

\* one run of the streaming variant
SpecStream == Init /\ [][StreamNext]_vars

\* the embedding client under any sequence of calls
SpecEmbed == Init /\ [][EmbedNext]_vars

\* the indexer under any sequence of row changes and index operations
SpecIndex == Init /\ [][IndexNext]_vars

\* the context processor on the lists a search can hand it
SpecRetr == Init /\ [][RetrNext]_vars

\* reciprocal rank fusion of the two result lists of one query
SpecFuse == Init /\ [][FuseNext]_vars

\* filter extraction followed by the hybrid search
SpecSearch == Init /\ [][SearchNext]_vars

\* the function selection of the action executor
SpecAct == Init /\ [][ActNext]_vars

\* read queries and writes, one request after the other
SpecWrite == Init /\ [][WriteNext]_vars

\* the quick-intent check of a few requests
SpecQuick == Init /\ [][QuickNext]_vars

\* one request to the LLM server; every attempt ends (the HTTP requests have
\* timeouts) and every delay elapses
SpecRetry ==
  Init /\ [][RetryNext]_vars
       /\ WF_vars(\E outcome \in AttemptOutcomes : Attempt(outcome))
       /\ WF_vars(Backoff)

\* ------------------------------------------------------------------------
\* What getHistory can return, and the claims about the conversation store
\* ------------------------------------------------------------------------
\* the array the map holds for the session (empty when the key is missing)
InMemory(s) == IF conversations[s] = NoRef THEN <<>> ELSE heap[conversations[s]]

\* every value getHistory(s) can return in the current state: the cache entry
\* when the read finds one, the in-memory array when it finds none or throws
GetResults(s) ==
  {InMemory(s)} \cup (IF histCache[s] # NoEntry THEN {histCache[s]} ELSE {})

\* an addToHistory call on the session has started and not yet returned
AppendsInProgress(s) ==
  {w \in Workers : wpc[w] \in {"summarizing", "caching"} /\ wsess[w] = s}

SummaryCount(h) == Cardinality({i \in 1..Len(h) : h[i].role = "summary"})

HistoryBound(h) ==
  /\ Len(h) <= 1 + MAX_MESSAGES
  /\ SummaryCount(h) <= 1
  /\ \A i \in 1..Len(h) : h[i].role = "summary" => i = 1

\* C4: once the Append calls on a session have returned, whatever Get(sessionId)
\* returns has at most 1 + MAX_MESSAGES turns and at most one summary turn, and
\* a summary turn, if present, is the first turn.
Thm_C4_HistoryBound ==
  \A s \in Sessions :
    AppendsInProgress(s) = {} => \A h \in GetResults(s) : HistoryBound(h)

\* C4 witness: more than MAX_MESSAGES + 1 turns were appended, every call has
\* returned, and the history was cut down to exactly MAX_MESSAGES turns.
Wit_C4_Truncated ==
  \E s \in Sessions :
    /\ AppendsInProgress(s) = {}
    /\ nextSeq > MAX_MESSAGES + 2
    /\ Len(InMemory(s)) = MAX_MESSAGES
    /\ histCache[s] = InMemory(s)

\* the user and assistant turns of a history, in their positions
NonSummary(h) == SelectSeq(h, LAMBDA m : m.role # "summary")

ArrivalOrdered(h) ==
  /\ \A i, j \in 1..Len(NonSummary(h)) :
       i < j => NonSummary(h)[i].seq < NonSummary(h)[j].seq
  /\ \A i \in 1..Len(h) : h[i].role = "summary" => i = 1

\* C5: in every history array of a session and in its cache copy, the user and
\* assistant turns appear in the order in which they were appended, and the
\* summary turn, when present, is strictly first.
Thm_C5_ArrivalOrder ==
  /\ \A r \in Refs : ArrivalOrdered(heap[r])
  /\ \A s \in Sessions : histCache[s] # NoEntry => ArrivalOrdered(histCache[s])

\* C5 witness: a summarised history: the summary first, then the three most
\* recent turns in arrival order, after every call has returned.
Wit_C5_SummaryFirst ==
  \E s \in Sessions :
    /\ AppendsInProgress(s) = {}
    /\ Len(InMemory(s)) = 1 + messagesToKeep
    /\ InMemory(s)[1].role = "summary"
    /\ InMemory(s)[2].seq < InMemory(s)[3].seq
    /\ InMemory(s)[3].seq < InMemory(s)[4].seq

\* C6: Append operations on the same sessionId are mutually exclusive: at no
\* time are two addToHistory calls on one session both between their first
\* step and their return.
Cex_C6_AppendMutex ==
  \A s \in Sessions : Cardinality(AppendsInProgress(s)) <= 1

TypeOKConv ==
  /\ conversations \in [Sessions -> Refs \cup {NoRef}]
  /\ \A r \in Refs : Len(heap[r]) <= MAX_MESSAGES + Cardinality(Workers)
  /\ wpc \in [Workers -> {"idle", "summarizing", "caching", "getting"}]

\* ------------------------------------------------------------------------
\* Claims about the orchestrator, the executor and the index
\* ------------------------------------------------------------------------
\* event a occurs in the trace, and before every occurrence of event b
Precedes(tr, a, b) ==
  \A i \in 1..Len(tr) : tr[i] = b => \E j \in 1..(i - 1) : tr[j] = a

ActionCommitted(ops) ==
  /\ ppc = "returned"
  /\ act.committed
  /\ act.name.op \in ops
  /\ act.index = "ok"

\* C1: when Process returns after a create or update that committed through
\* the executor and whose index step reported no failure, the vector store
\* holds a document of that (kind, id) built from the committed row, and the
\* index step came before the return.
Thm_C1_IndexedBeforeReturn ==
  ActionCommitted({"create", "update"}) =>
    /\ \E p \in DocsOf(vstore, act.name.kind, act.id) :
         p.ver = db[act.name.kind][act.id]
    /\ Precedes(trace, "index_ok", "returned")

\* C1 witness: an update committed a new version of an indexed entity, the
\* reindex reported no failure, and the response has been returned.
Wit_C1_UpdateReindexed ==
  /\ ActionCommitted({"update"})
  /\ db[act.name.kind][act.id] = act.before[act.name.kind][act.id] + 1
  /\ \E p \in DocsOf(vstore, act.name.kind, act.id) : p.ver = db[act.name.kind][act.id]

\* C2: when Process returns after a delete that committed through the executor
\* and whose index-delete step reported no failure, the vector store holds no
\* document of the deleted entity.
Cex_C2_DeletedNotIndexed ==
  ActionCommitted({"delete"}) => DocsOf(vstore, act.name.kind, act.id) = {}

\* the required arguments of each function (specification, function table)
RequiredArgs(fn) ==
  CASE fn.op \in {"update", "delete"} -> {SubjectArg(fn.kind)}
    [] fn.op = "create" /\ fn.kind = "task" -> {"title"}
    [] fn.op = "create" /\ fn.kind = "user" -> {"name", "email", "password"}
    [] fn.op = "create" /\ fn.kind = "team" -> {"name", "projectId", "ownerId"}
    [] fn.op = "create" /\ fn.kind = "project" -> {"name"}

\* every required argument is present and every supplied ID-bearing argument
\* names an entity that existed when the executor ran
ArgsInOrder(fn, args, d) ==
  /\ \A a \in RequiredArgs(fn) : a \in DOMAIN args /\ args[a] # 0
  /\ \A a \in IdArgNames \cap DOMAIN args :
       args[a] # 0 => args[a] \in Ids /\ d[TargetKind(a)][args[a]] > 0

Thm_C7_AppendOrder ==
  /\ Precedes(trace, "user_done", "assistant_start")
  /\ req.path \in {"quick_intent", "action", "full"} =>
       /\ Precedes(trace, "user_done", "returned")
       /\ Precedes(trace, "assistant_done", "returned")

\* C7 witness: an action request returned after both appends, in order.
Wit_C7_ActionAppended ==
  /\ ppc = "returned"
  /\ req.path = "action"
  /\ SelectSeq(trace, LAMBDA e : e \in {"user_start", "user_done", "assistant_start",
                                         "assistant_done", "returned"})
       = <<"user_start", "user_done", "assistant_start", "assistant_done", "returned">>

\* Process(q, s1) has returned and Process(q, s2) with another session id has
\* returned after it
SecondOfPair ==
  /\ ppc = "returned"
  /\ prev.outcome = "returned"
  /\ prev.query = req.query
  /\ prev.sessionId # req.sessionId

\* the cache read of the second request found the entry the first one wrote
FirstEntryFresh == req.hit = prev.no

SameAnswerAndSources == resp.answer = prev.answer /\ resp.sources = prev.sources

\* C8 (amended): the second response carries the session id of its own
\* request, and it has the same answer and sources as the first whenever the
\* cache entry written by the first is still fresh.
Thm_C8_CacheHitSameAnswer ==
  SecondOfPair =>
    /\ resp.sessionId = req.sessionId
    /\ resp.sessionId # prev.sessionId
    /\ FirstEntryFresh => SameAnswerAndSources

\* C8 witness: the second request of the pair was answered from the entry the
\* first one wrote.
Wit_C8_SecondFromCache ==
  SecondOfPair /\ FirstEntryFresh /\ resp.fromCache /\ resp.answer \in Answers

\* C8 as stated: the second response has the same answer and sources as the
\* first if and only if the cache entry written by the first is still fresh.
Cex_C8_SameIffFresh ==
  SecondOfPair =>
    /\ resp.sessionId = req.sessionId
    /\ SameAnswerAndSources <=> FirstEntryFresh

\* C9: Process never fails toward its caller, whichever collaborator fails.
Cex_C9_NeverRaises == ppc # "raised"

\* ------------------------------------------------------------------------
\* Claims about the streaming variant
\* ------------------------------------------------------------------------
Types(evs) == [i \in 1..Len(evs) |-> evs[i].type]
Terminal == {"complete", "error"}
Count(tr, set) == Cardinality({i \in 1..Len(tr) : tr[i] \in set})

RECURSIVE SkipWhile(_, _)
SkipWhile(t, type) ==
  IF t # <<>> /\ Head(t) = type THEN SkipWhile(Tail(t), type) ELSE t

InStatedOrder(t) ==
  /\ Len(t) >= 2
  /\ t[1] = "start"
  /\ t[2] = "status"
  /\ LET rest == SkipWhile(Tail(t), "status") IN
     /\ rest # <<>>
     /\ Head(rest) = "sources"
     /\ LET tail == SkipWhile(Tail(rest), "chunk") IN
        Len(tail) = 1 /\ tail[1] \in Terminal

IndexStepFailed ==
  /\ req.path = "action"
  /\ act.committed
  /\ act.index = "failed"

\* C11: when the index step of an action fails after the CRUD write
\* committed, the request does not raise, and the response returned carries
\* the success message and the executed function call.
Thm_C11_IndexFailureLogged ==
  IndexStepFailed =>
    /\ ppc # "raised"
    /\ ppc \in {"appendUser", "userAppending", "appendAssistant",
                 "assistantAppending", "respond"} =>
          pending.answer = "action_ok"
    /\ ppc = "returned" =>
          /\ resp.answer = "action_ok"
          /\ resp.functionCalls = <<[name |-> act.name, arguments |-> act.arguments]>>
          /\ resp.stepsExecuted = <<"action_execution">>

\* C11 witness: a delete committed, its delete-from-index step failed, and
\* the response has been returned.
Wit_C11_DeleteIndexFailed ==
  /\ IndexStepFailed
  /\ ppc = "returned"
  /\ act.name.op = "delete"
  /\ db[act.name.kind][act.id] = 0

\* ------------------------------------------------------------------------
\* Claims about the embedding client
\* ------------------------------------------------------------------------
\* C12: every vector returned by a successful single-item generateEmbedding
\* has exactly vectorDimension finite elements and is not all-zero, whatever
\* single and batch calls came before.
Cex_C12_SingleEmbedValid ==
  (embedded.call = "single" /\ embedded.outcome = "ok") =>
    /\ embedded.vectors[1].length = vectorDimension
    /\ embedded.vectors[1].elems \subseteq {"zero", "number"}
    /\ embedded.vectors[1].elems # {"zero"}

\* ------------------------------------------------------------------------
\* Claims about the identity of indexed documents
\* ------------------------------------------------------------------------
PointIdOf(k, i) == NumberId(stringToNumericId(generatePointId(k, i)))

\* C13: after any sequence of index, reindex and delete operations the
\* collection holds at most one document for each (kind, id), and it is
\* stored under the point id computed from (kind, id).
Thm_C13_OneDocumentPerEntity ==
  \A k \in Kinds, i \in Ids :
    /\ Cardinality(DocsOf(points, k, i)) <= 1
    /\ \A p \in DocsOf(points, k, i) : p.pid = PointIdOf(k, i)

\* C13 witness: an entity that had a document was indexed again at a later
\* time, from a newer version of its row.
Wit_C13_IndexedAgain ==
  /\ ilast.op \in {"index", "reindex"}
  /\ ilast.ok
  /\ ilast.had
  /\ \E p \in DocsOf(points, ilast.kind, ilast.id) : p.ver = 2 /\ p.indexed_at > 0

\* a document without indexed_at
WithoutStamp(p) == [p EXCEPT !.indexed_at = 0]

\* a document without indexed_at and without the fields computed from the
\* deadline and the current time
WithoutClock(p) ==
  [p EXCEPT !.indexed_at = 0,
            !.metadata = Metadata(@.task_status, NullDays)]

SecondReindex == ilast.op = "reindex" /\ ilast.ok /\ ilast.repeated

\* C14: a successful reindex of (kind, id) that directly follows a successful
\* reindex of the same (kind, id), the row unchanged, leaves the same points
\* with the same payloads, indexed_at and the fields derived from the current
\* time (days_until_deadline, is_overdue, is_urgent) set aside.
Thm_C14_ReindexIdempotent ==
  SecondReindex =>
    /\ Cardinality(points) = Cardinality(ilast.before)
    /\ {WithoutClock(p) : p \in points} = {WithoutClock(p) : p \in ilast.before}

\* C14 witness: the second reindex wrote the document again, at a later time.
Wit_C14_ReindexedTwice ==
  /\ SecondReindex
  /\ irows[ilast.kind][ilast.id] > 0
  /\ points # ilast.before

\* C14 as stated: the same points and the same payloads, only indexed_at set
\* aside.
Cex_C14_SameButIndexedAt ==
  SecondReindex =>
    /\ Cardinality(points) = Cardinality(ilast.before)
    /\ {WithoutStamp(p) : p \in points} = {WithoutStamp(p) : p \in ilast.before}

\* ------------------------------------------------------------------------
\* Claims about the summarisation scenario
\* ------------------------------------------------------------------------
\* n appends have been made to the session, one after the other, starting
\* from the empty session, every summarisation and every cache call
\* succeeding, and none is in progress
AppendedInTurn(n) ==
  /\ calm
  /\ faults = 0
  /\ nextSeq = n + 1
  /\ \A w \in Workers : wpc[w] = "idle"

\* C15: the summarisation runs in the 8th append, which leaves the summary
\* and the messagesToKeep most recent turns; after the 9th append getHistory
\* returns the summary first and messagesToKeep + 2 turns in all.
Thm_C15_SummaryAtThreshold ==
  /\ AppendedInTurn(SUMMARIZE_THRESHOLD) =>
       \A h \in GetResults("s1") :
         Len(h) = messagesToKeep + 1 /\ h[1].role = "summary"
  /\ AppendedInTurn(SUMMARIZE_THRESHOLD + 1) =>
       \A h \in GetResults("s1") :
         Len(h) = messagesToKeep + 2 /\ h[1].role = "summary"

\* C15 witness: nine appends in turn, and a getHistory after them.
Wit_C15_NinthAppend ==
  /\ AppendedInTurn(SUMMARIZE_THRESHOLD + 1)
  /\ gets = 1
  /\ Len(InMemory("s1")) = messagesToKeep + 2

\* C15 as stated: after the 9th append the history starts with the summary
\* and has at most messagesToKeep + 1 turns.
Cex_C15_AtMostFourAfterNinth ==
  AppendedInTurn(SUMMARIZE_THRESHOLD + 1) =>
    \A h \in GetResults("s1") :
      /\ Len(h) <= messagesToKeep + 1
      /\ Len(h) > 0 /\ h[1].role = "summary"

\* ------------------------------------------------------------------------
\* Claims about the shortcut path
\* ------------------------------------------------------------------------
\* the request took the shortcut and no collaborator failed
ShortcutReturned(path, outcome, why) ==
  path = "shortcut" /\ outcome = "returned" /\ why = "none"

\* the query of the previous request has been asked again and answered
Repeated ==
  /\ ppc = "returned"
  /\ prev.outcome = "returned"
  /\ prev.query = req.query

\* what a returned shortcut response looks like
ShortcutResponse ==
  ShortcutReturned(req.path, ppc, failed) =>
    /\ isSimpleExactMatch(req.query)
    /\ resp.stepsExecuted = <<"shortcut_exact_match">>
    /\ resp.retrievedDocuments <= ShortcutLimit
    /\ ~resp.fromCache

\* the step that returns a shortcut response leaves it in the response cache
\* under the key of its query
ShortcutCached ==
  (ppc = "pipeline" /\ ShortcutReturned(req'.path, ppc', failed')) =>
    respCache'[generateCacheKey(req.query)] = [resp' EXCEPT !.writer = req.no]

\* the repetition of a shortcut query that finds the entry is answered from
\* the cache
RepeatedFromCache ==
  (Repeated /\ FirstEntryFresh /\ prev.path = "shortcut") =>
    /\ resp.fromCache
    /\ resp.stepsExecuted = <<"shortcut_exact_match">>
    /\ resp.answer = prev.answer

\* C16: a response of the shortcut path has stepsExecuted
\* ["shortcut_exact_match"], at most 10 retrieved documents and fromCache
\* false, and the step that returns it leaves it in the response cache under
\* the key of its query; the same query asked again while that entry is there
\* is answered from the cache, fromCache true.
Thm_C16_ShortcutThenCacheHit ==
  /\ [](ShortcutResponse /\ RepeatedFromCache)
  /\ [][ShortcutCached]_vars

\* C16 witness: a query took the shortcut while more than 10 points matched,
\* and its repetition was answered from the cache.
Wit_C16_RepeatedShortcut ==
  /\ Repeated
  /\ FirstEntryFresh
  /\ prev.path = "shortcut"
  /\ resp.fromCache
  /\ resp.retrievedDocuments = ShortcutLimit

\* ------------------------------------------------------------------------
\* C17
\* ------------------------------------------------------------------------

SortedByScore(docs) ==
  \A i \in 1..Len(docs), j \in 1..Len(docs) : i < j => docs[i].score >= docs[j].score

Min(a, b) == IF a < b THEN a ELSE b

\* diverse is a selection of min(5, |reranked|) different documents of
\* reranked that starts with its first one
MMROf(diverse, reranked) ==
  /\ diverse[1] = reranked[1]
  /\ Len(diverse) = Min(MMRLimit, Len(reranked))
  /\ \A i \in 1..Len(diverse) : \E j \in 1..Len(reranked) : diverse[i] = reranked[j]
  /\ \A i \in 1..Len(diverse), j \in 1..Len(diverse) :
       i # j => diverse[i].id # diverse[j].id

\* C17: the reranked list is sorted by score descending; applyMMR of it, when
\* it is not empty, starts with its first document, has min(5, |reranked|)
\* documents and none of them twice; and the context processor returns the
\* reranked list itself as the diverse one when it has fewer than 5 documents,
\* applyMMR of it otherwise.
Thm_C17_MMRSelection ==
  retrieved.done =>
    LET reranked == retrieved.rerankedDocs
        diverse == retrieved.diverseDocs
    IN /\ SortedByScore(reranked)
       /\ reranked # <<>> => MMROf(applyMMR(reranked), reranked)
       /\ Len(reranked) < MMRLimit => diverse = reranked
       /\ Len(reranked) >= MMRLimit => diverse = applyMMR(reranked)

\* C17 witness: more than 5 documents were reranked and the 5 selected are not
\* simply the 5 best scored
Wit_C17_DiverseSelection ==
  /\ retrieved.done
  /\ Len(retrieved.rerankedDocs) > MMRLimit
  /\ Len(retrieved.diverseDocs) = MMRLimit
  /\ retrieved.diverseDocs # Take(retrieved.rerankedDocs, MMRLimit)

\* ------------------------------------------------------------------------
\* C18
\* ------------------------------------------------------------------------

\* the position of id in a list of ids, 0 when it is not there
PosIn(list, id) ==
  IF \E p \in 1..Len(list) : list[p] = id
  THEN CHOOSE p \in 1..Len(list) : list[p] = id
  ELSE 0

\* the position of id in the fused list
FusedPos(id) ==
  IF \E p \in 1..Len(fused.docs) : fused.docs[p].id = id
  THEN CHOOSE p \in 1..Len(fused.docs) : fused.docs[p].id = id
  ELSE 0

\* the sum of 1 / (60 + r + 1) over the 0-based ranks r at which id appears
\* in the two lists, where no list has an id twice
ExpectedScore(id) ==
  LET p1 == PosIn(docLists[1], id)
      p2 == PosIn(docLists[2], id)
  IN IF p1 # 0 /\ p2 # 0 THEN <<(60 + p2) + (60 + p1), (60 + p1) * (60 + p2)>>
     ELSE IF p1 # 0 THEN <<1, 60 + p1>>
     ELSE <<1, 60 + p2>>

\* C18: the fused list has every id of the two lists once, each with the sum
\* of 1 / (60 + r + 1) over its 0-based ranks r, in descending order of that
\* sum; and a document at rank r1 of the first list and r2 > r1 of the second
\* comes before every document that is only in the first list, below rank r1.
Thm_C18_RRF ==
  fused.done =>
    /\ \A id \in DocIds :
         (PosIn(docLists[1], id) # 0 \/ PosIn(docLists[2], id) # 0) <=> FusedPos(id) # 0
    /\ \A p \in 1..Len(fused.docs), q \in 1..Len(fused.docs) :
         /\ p # q => fused.docs[p].id # fused.docs[q].id
         /\ p < q => ~FracLess(fused.docs[p].score, fused.docs[q].score)
    /\ \A p \in 1..Len(fused.docs) :
         FracEq(fused.docs[p].score, ExpectedScore(fused.docs[p].id))
    /\ \A d \in DocIds, e \in DocIds :
         LET r1 == PosIn(docLists[1], d)
             r2 == PosIn(docLists[2], d)
         IN (/\ r1 # 0
             /\ r1 < r2
             /\ PosIn(docLists[1], e) > r1
             /\ PosIn(docLists[2], e) = 0)
            => FusedPos(d) < FusedPos(e)

\* C18 witness: a document first in one list and third in the other is fused
\* with a document that is second in the first list only
Wit_C18_BothListsBeatOne ==
  /\ fused.done
  /\ \E d \in DocIds, e \in DocIds :
       /\ PosIn(docLists[1], d) = 1
       /\ PosIn(docLists[2], d) = 3
       /\ PosIn(docLists[1], e) = 2
       /\ PosIn(docLists[2], e) = 0
       /\ FusedPos(d) < FusedPos(e)

\* ------------------------------------------------------------------------
\* C19, C20
\* ------------------------------------------------------------------------

\* C19: when the extraction finds more than one entity kind, every document
\* the vector search returns is of one of those kinds.
Cex_C19_MultiKindRestricted ==
  (/\ ssearch.done /\ ~ssearch.threw
   /\ sinput.type = "question"
   /\ ~sinput.extraction.threw
   /\ Cardinality(sinput.extraction.types) > 1)
  => \A p \in 1..Len(ssearch.vectorDocs) :
       DocOf(ssearch.vectorDocs[p]).entity_type \in sinput.extraction.types

\* the metadata predicates of the extracted filters hold of a document
MeetsMetadata(doc) ==
  /\ sfilters.filters.is_overdue => doc.metadata.is_overdue
  /\ sfilters.filters.is_urgent => doc.metadata.is_urgent
  /\ sfilters.filters.task_status # "none" =>
       doc.metadata.task_status = sfilters.filters.task_status

\* C20: the BM25 search scrolls with the filter of the vector search, and
\* every document it returns, and every document of the hybrid result,
\* satisfies the metadata predicates of the filters.
Cex_C20_Bm25SameFilter ==
  (ssearch.done /\ ~ssearch.threw) =>
    /\ ssearch.scrollFilter = ssearch.vectorFilter
    /\ \A p \in 1..Len(ssearch.bm25Docs) : MeetsMetadata(DocOf(ssearch.bm25Docs[p]))
    /\ \A p \in 1..Len(ssearch.hybridDocs) : MeetsMetadata(DocOf(ssearch.hybridDocs[p]))

\* ------------------------------------------------------------------------
\* C21
\* ------------------------------------------------------------------------

\* C21: for a query classified as requirements, statistics or help, every
\* document retrieved is a synthetic one: of entity_type system_info for help
\* and requirements, statistics for statistics.
Cex_C21_SpecialTypesSynthetic ==
  (ssearch.done /\ ~ssearch.threw /\ sinput.type \in SpecialTypes) =>
    \A p \in 1..Len(ssearch.hybridDocs) :
      DocOf(ssearch.hybridDocs[p]).entity_type = MetadataType(sinput.type)

\* ------------------------------------------------------------------------
\* C22
\* ------------------------------------------------------------------------

\* C22: a task_status that extractFilters sets from the query text is one of
\* the values of TaskStatus, which indexed task documents carry.
Cex_C22_CanonicalStatus ==
  (sfilters.done /\ sfilters.filters.task_status # "none") =>
    sfilters.filters.task_status \in TaskStatuses

\* ------------------------------------------------------------------------
\* C23, C24
\* ------------------------------------------------------------------------

\* C23: the function the executor runs is the one named by the
\* classification, whatever the parameter extraction answered.
Cex_C23_ClassifiedFunctionRuns ==
  (aexec.done /\ aexec.executed # NoFunction) => aexec.executed = aexec.funcName

\* C24: when the executor retrieves its own context for a create or an
\* update, the kinds it searches include the entity of the intent and user.
Cex_C24_BaseAndUserSearched ==
  (aexec.done /\ aexec.own /\ aclass.type \in {"create", "update"}) =>
    {aexec.funcName.kind, "user"} \subseteq aexec.contextKinds

\* ------------------------------------------------------------------------
\* C25
\* ------------------------------------------------------------------------

Finished == rcall.pc \in {"returned", "threw"}

\* the attempts made, their delays and the way the call ended
RetryBounded ==
  LET n == Len(rcall.outcomes)
  IN /\ rcall.kind = "completion" => n <= 3
     /\ rcall.kind = "embedding" => n <= 4
     /\ Len(rcall.delays) <= n
     /\ \A i \in 1..Len(rcall.delays) :
          /\ rcall.delays[i] = BackoffDelay(i - 1)
          /\ i > 1 => rcall.delays[i] = 2 * rcall.delays[i - 1]
     /\ \A i \in 1..(n - 1) : rcall.outcomes[i] \notin {"ok", "malformed", "404", "400"}
     /\ rcall.pc = "returned" => rcall.outcomes[n] = "ok"
     /\ rcall.pc = "threw" =>
          /\ rcall.outcomes[n] # "ok"
          /\ rcall.error = IF rcall.outcomes[n] = "malformed" THEN "format"
                           ELSE rcall.outcomes[n]

\* C25: a completion is attempted at most 3 times and an embedding at most 4
\* times, the delay before attempt i + 1 being 2^(i-1) seconds; no attempt
\* follows a 404, a 400 or a response; the call returns the first response or
\* throws the error of its last attempt; and every call that starts ends.
Thm_C25_BoundedRetries ==
  /\ []RetryBounded
  /\ (rcall.pc = "request") ~> Finished

\* C25 witness: an embedding fails after its fourth attempt, having waited
\* 1, 2 and 4 seconds
Wit_C25_EmbeddingExhausted ==
  /\ rcall.pc = "threw"
  /\ rcall.kind = "embedding"
  /\ Len(rcall.outcomes) = 4
  /\ rcall.delays = <<1000, 2000, 4000>>

\* ------------------------------------------------------------------------
\* C26
\* ------------------------------------------------------------------------

\* s2 is what is left of s1 after removing turns from its head
IsSuffix(s2, s1) ==
  /\ Len(s2) <= Len(s1)
  /\ s2 = SubSeq(s1, Len(s1) - Len(s2) + 1, Len(s1))

\* the step in which the summarisation call of w fails
SummaryFailedStep(w) == wpc[w] = "summarizing" /\ wllm'[w] = "failed"

\* what that step does to the array of w
FallbackStep(w) ==
  SummaryFailedStep(w) =>
    LET h == heap[wref[w]]
        h2 == heap'[wref'[w]]
    IN /\ wpc'[w] = "caching"
       /\ IsSuffix(h2, h)
       /\ Len(h2) = (IF Len(h) > MAX_MESSAGES THEN MAX_MESSAGES ELSE Len(h))
       /\ serial => /\ h2 # <<>>
                    /\ h2[Len(h2)].role # "summary"
                    /\ h2[Len(h2)].seq = nextSeq - 1

\* C26: when the LLM call of the summarisation fails, addToHistory goes on to
\* its cache write and returns; the array is what it was with turns removed
\* from its head only, down to MAX_MESSAGES turns, so no summary turn is
\* added or replaced; and the turn just appended (the last one, when no call
\* overlaps another) is still there.
Thm_C26_SummaryFailureFallback == [][\A w \in Workers : FallbackStep(w)]_vars

\* C26 witness: a summarisation failed on an array of more than MAX_MESSAGES
\* turns, which the append left with MAX_MESSAGES turns, the new one last
Wit_C26_FailedAndTruncated ==
  \E w \in Workers :
    /\ wpc[w] = "caching"
    /\ wllm[w] = "failed"
    /\ serial
    /\ nextSeq > MAX_MESSAGES + 1
    /\ Len(heap[wref[w]]) = MAX_MESSAGES
    /\ heap[wref[w]][MAX_MESSAGES].seq = nextSeq - 1

\* ------------------------------------------------------------------------
\* C27
\* ------------------------------------------------------------------------

Checked == quick.n > 0
Lower == Trim(ToLowerCase(quick.query))
AnyRegex == GreetingRegex(Lower) \/ GoodbyeRegex(Lower) \/ ThankRegex(Lower)
NoCrudVerb == \A verb \in CrudVerbs : ~Contains(Lower, verb)

AnyPattern ==
  GreetingRegex(Lower) \/ GoodbyeRegex(Lower) \/ (ThankRegex(Lower) /\ Len(Lower) < 30)

ServedFromBeforeWrite ==
  /\ rcw.last.no = rcw.no
  /\ rcw.last.path = "cache_hit"
  /\ rcw.last.entry.writes < rcw.writes

\* C28: after a create, update or delete committed through the action branch,
\* a later read query is not answered with a response that was written to the
\* response cache before that write.
Cex_C28_NoResponseFromBeforeWrite == ~ServedFromBeforeWrite

\* ------------------------------------------------------------------------
\* C29
\* ------------------------------------------------------------------------

\* processQuery has returned a response that is not the error response
ReturnedNonError ==
  /\ ppc = "returned"
  /\ resp # NoResp
  /\ resp.stepsExecuted # <<"error_handling">>

\* the history of the session ends with the user turn and the assistant turn
\* of this request
EndsWithOwnTurns(h) ==
  /\ Len(h) >= 2
  /\ h[Len(h) - 1] = [role |-> "user", seq |-> 2 * req.no - 1]
  /\ h[Len(h)] = [role |-> "assistant", seq |-> 2 * req.no]

\* C29: every processQuery that returns a non-error response has extended the
\* history of its session by the user turn and the assistant turn of the
\* request, whichever path produced the response.
Cex_C29_HistoryExtendedOnEveryPath ==
  ReturnedNonError => EndsWithOwnTurns(phist[req.sessionId])

\* ------------------------------------------------------------------------
\* C30
\* ------------------------------------------------------------------------

\* the array getHistory returns: the one the session map holds when it ends
ReturnedHistory(w) == heap'[conversations'[wsess[w]]]

\* a getHistory that began after every addToHistory had returned ends
GetReturns(w) ==
  /\ serial'
  /\ wpc[w] = "getting"
  /\ wpc'[w] = "idle"
  /\ nextSeq > 1

\* C30: once addToHistory has returned, the next getHistory of the session
\* returns a history that contains the appended turn, also when the cache
\* write of addToHistory failed and an older copy is still in the cache.
Cex_C30_GetSeesAppendedTurn ==
  [][\A w \in Workers :
       GetReturns(w) =>
         /\ conversations'[wsess[w]] # NoRef
         /\ \E i \in 1..Len(ReturnedHistory(w)) :
              ReturnedHistory(w)[i].seq = nextSeq - 1]_vars

====
